---- MODULE Spec2Model ----
(***************************************************************************)
(* Model of the request-inspection security pipeline of                    *)
(* backend/src/middleware/security.ts: the Express middleware arrays       *)
(* applySecurity and enhancedSecurity, their stages, the complexity        *)
(* scorer and the sanitizer.                                               *)
(*                                                                         *)
(* Strings are sequences of lexemes.  A lexeme is a literal piece of text  *)
(* (written as the TLA+ string of that text); the text of a string is the  *)
(* concatenation of its lexemes.  The regular expressions of the source    *)
(* are evaluated per lexeme: the tables below list, for every lexeme, the  *)
(* patterns of the source that the lexeme's text matches.                  *)
(***************************************************************************)
EXTENDS Integers, Sequences, FiniteSets, TLC

VARIABLES
    NODE_ENV,      \* process.env.NODE_ENV
    profile,       \* the middleware array mounted with app.use(...)
    hits,          \* rate-limit store: client key -> totalHits of its window
    age,           \* rate-limit store: client key -> ms since its window began
    req,           \* the request in flight (body and query are mutable)
    orig,          \* the request as it was submitted
    pc,            \* 0: no request in flight; i: stage profile[i] runs next;
                   \* Len(profile)+1: the application handler runs next;
                   \* -1: the request has ended and is not yet discarded
    resp,          \* the response written for the request (NoResp: none yet)
    responses,     \* number of responses written for the request
    handlerCalls,  \* number of invocations of the application handler
    received,      \* the body the handler was given
    trace,         \* the stages that ran for the request, in order
    nreq,          \* number of requests that have arrived, up to MaxRequests
    atArrival,     \* the rate-limit store as it was when the request arrived
    authHits,      \* store of authRateLimiter: client key -> totalHits
    flight,        \* the requests that are inside rateLimiter at the same time:
                   \* request id -> its position, client and the totalHits
                   \* the store handed to it
    kanban,        \* the kanban service and its controllers: the rows of
                   \* application and the call in progress
    scorer         \* calculateJsonComplexity: its arguments and result, and
                   \* its call stack when it is followed call by call

vars == <<NODE_ENV, profile, hits, age, req, orig, pc, resp, responses,
          handlerCalls, received, trace, nreq, atArrival, authHits, flight,
          kanban, scorer>>

\* the variables of the security pipeline
pipelineVars ==
    <<NODE_ENV, profile, hits, age, req, orig, pc, resp, responses,
      handlerCalls, received, trace, nreq, atArrival, authHits, flight>>

-----------------------------------------------------------------------------
(* Helpers                                                                 *)

Max(a, b) == IF a >= b THEN a ELSE b

Min(a, b) == IF a <= b THEN a ELSE b

RECURSIVE SumLen(_, _)
SumLen(s, len) ==
    IF s = <<>> THEN 0 ELSE len[Head(s)] + SumLen(Tail(s), len)

-----------------------------------------------------------------------------
(* Lexemes                                                                 *)

\* Opening and closing tags; the parser of the sanitizer sees them as elements.
ScriptOpen == "<script>"

ScriptClose == "</script>"

TagLexemes ==
    { ScriptOpen, ScriptClose, "<b>", "</b>", "<form>", "</form>",
      "<input name=\"eval\">", "<div id=\"__webpack_require__\">", "</div>",
      "<img src=\"x\" onerror=\"alert(1)\">" }

\* Characters that are text to the parser and are written back as entities.
EscapeOf ==
    [ l \in {" < ", " > ", " & "} |->
        CASE l = " < " -> " &lt; "
          [] l = " > " -> " &gt; "
          [] l = " & " -> " &amp; " ]

\* Entities: parsed to a character and written back as the same entity.
EntityLexemes == { " &lt; ", " &gt; ", " &amp; " }

\* Text without markup.
PlainLexemes ==
    { "ok", "John Doe", "Normal text", "deep", "password", "alert(1)",
      "malicious", "constructor", "name", "content", "email",
      "javascript", "CON", "nested", "data", "depth", "fieldCount", "/test",
      "id", "expression", "template", "html", "file", "pattern", "css", "q",
      "__proto__", "isAdmin",
      "admin@test.com' OR 1=1 --", "1 OR 1=1",
      "../../../etc/passwd",
      "{{constructor.constructor(\"alert(1)\")()}}", "${7*7}",
      "aaaaaaaaaaaaaaaaaaaaaaaaaaaaaaaaaaaaaaaaaaaaaaaaaaaaaaaaaaaa",
      "div { width: expression(alert(1)); }" }

Lexemes == TagLexemes \cup DOMAIN EscapeOf \cup EntityLexemes \cup PlainLexemes

\* Number of characters of each lexeme.
LexLen ==
    [ l \in Lexemes |->
        CASE l = "<script>" -> 8
          [] l = "</script>" -> 9
          [] l = "<b>" -> 3
          [] l = "</b>" -> 4
          [] l = "<form>" -> 6
          [] l = "</form>" -> 7
          [] l = "<input name=\"eval\">" -> 19
          [] l = "<div id=\"__webpack_require__\">" -> 30
          [] l = "</div>" -> 6
          [] l = "<img src=\"x\" onerror=\"alert(1)\">" -> 32
          [] l = " < " -> 3
          [] l = " > " -> 3
          [] l = " & " -> 3
          [] l = " &lt; " -> 6
          [] l = " &gt; " -> 6
          [] l = " &amp; " -> 7
          [] l = "ok" -> 2
          [] l = "John Doe" -> 8
          [] l = "Normal text" -> 11
          [] l = "deep" -> 4
          [] l = "password" -> 8
          [] l = "alert(1)" -> 8
          [] l = "malicious" -> 9
          [] l = "constructor" -> 11
          [] l = "name" -> 4
          [] l = "content" -> 7
          [] l = "email" -> 5
          [] l = "javascript" -> 10
          [] l = "CON" -> 3
          [] l = "nested" -> 6
          [] l = "data" -> 4
          [] l = "depth" -> 5
          [] l = "fieldCount" -> 10
          [] l = "/test" -> 5
          [] l = "id" -> 2
          [] l = "expression" -> 10
          [] l = "template" -> 8
          [] l = "html" -> 4
          [] l = "file" -> 4
          [] l = "pattern" -> 7
          [] l = "css" -> 3
          [] l = "q" -> 1
          [] l = "__proto__" -> 9
          [] l = "isAdmin" -> 7
          [] l = "admin@test.com' OR 1=1 --" -> 25
          [] l = "1 OR 1=1" -> 8
          [] l = "../../../etc/passwd" -> 19
          [] l = "{{constructor.constructor(\"alert(1)\")()}}" -> 41
          [] l = "${7*7}" -> 6
          [] l = "aaaaaaaaaaaaaaaaaaaaaaaaaaaaaaaaaaaaaaaaaaaaaaaaaaaaaaaaaaaa" -> 60
          [] l = "div { width: expression(alert(1)); }" -> 36 ]

StrLen(s) == SumLen(s, LexLen)

-----------------------------------------------------------------------------
(* JSON values                                                             *)

\* A value is a record with the same fields whatever its kind:
\*   k     the kind: "undef", "null", "num", "bool", "str", "arr" or "obj"
\*   s     the lexemes of a string
\*   keys  the keys of an object (strings), in insertion order
\*   kids  the elements of an array, or the values of an object's keys
\*   pad   the number of further fields field<i>: "value<i>" of an object
Node(k, s, keys, kids, pad) ==
    [k |-> k, s |-> s, keys |-> keys, kids |-> kids, pad |-> pad]

Undef == Node("undef", <<>>, <<>>, <<>>, 0)

Null == Node("null", <<>>, <<>>, <<>>, 0)

Num == Node("num", <<>>, <<>>, <<>>, 0)

Str(s) == Node("str", s, <<>>, <<>>, 0)

Arr(items) == Node("arr", <<>>, <<>>, items, 0)

Obj(keys, vals) == Node("obj", <<>>, keys, vals, 0)

PadObj(keys, vals, pad) == Node("obj", <<>>, keys, vals, pad)

\* typeof v === 'object' && v !== null  (arrays included)
IsObjectLike(v) == v.k \in {"arr", "obj"}

\* JavaScript truthiness of a value
Truthy(v) ==
    CASE v.k \in {"undef", "null"} -> FALSE
      [] v.k = "str" -> v.s # <<>>
      [] OTHER -> TRUE

-----------------------------------------------------------------------------
(* Sanitizer                                                               *)

\* DOMPurify.sanitize(str, {ALLOWED_TAGS: [], ALLOWED_ATTR: [], KEEP_CONTENT: true}):
\* the string is parsed as HTML, every element is removed, the text inside an
\* element is kept except inside <script>, and the remaining text is written
\* back with '<', '>' and '&' as entities.  inScript: the scan is inside an
\* open <script> element.
RECURSIVE SanitizeScan(_, _)
SanitizeScan(s, inScript) ==
    IF s = <<>> THEN <<>>
    ELSE LET l == Head(s) IN
         CASE l = ScriptOpen -> SanitizeScan(Tail(s), TRUE)
           [] l = ScriptClose -> SanitizeScan(Tail(s), FALSE)
           [] inScript -> SanitizeScan(Tail(s), TRUE)
           [] l \in TagLexemes -> SanitizeScan(Tail(s), FALSE)
           [] l \in DOMAIN EscapeOf -> <<EscapeOf[l]>> \o SanitizeScan(Tail(s), FALSE)
           [] OTHER -> <<l>> \o SanitizeScan(Tail(s), FALSE)

\* A stripper that removes the first element only, as a replace() without the
\* global flag does.
RECURSIVE StripFirstTag(_)
StripFirstTag(s) ==
    IF s = <<>> THEN <<>>
    ELSE IF Head(s) \in TagLexemes THEN Tail(s)
    ELSE <<Head(s)>> \o StripFirstTag(Tail(s))

DOMPurifySanitizeFirstOnly(s) == StripFirstTag(s)

\* the sanitizer returns a string without '<' as it is, and parses any other
DOMPurifySanitize(s) ==
    IF \E i \in 1..Len(s) : s[i] \in TagLexemes \cup {" < "}
    THEN SanitizeScan(s, FALSE)
    ELSE s

\* sanitized[key] = value on the object built so far, the object being the
\* list of the source positions whose values it holds: a key already present
\* keeps its place and gets the new value, a new key is appended.  The object
\* is a literal {}: an assignment to the key __proto__ goes to the accessor of
\* Object.prototype and leaves the object without an own property of that name.
AssignKey(slots, keys, i) ==
    IF keys[i] = <<"__proto__">> THEN slots
    ELSE IF \E j \in 1..Len(slots) : keys[slots[j]] = keys[i]
    THEN [slots EXCEPT ![CHOOSE j \in 1..Len(slots) : keys[slots[j]] = keys[i]] = i]
    ELSE Append(slots, i)

\* for (const key in obj) sanitized[sanitize(key)] = ..., keys being the
\* sanitized keys in the order of the loop
RECURSIVE AssignAll(_, _, _)
AssignAll(slots, keys, i) ==
    IF i > Len(keys) THEN slots
    ELSE AssignAll(AssignKey(slots, keys, i), keys, i + 1)

RECURSIVE sanitizeObject(_)
sanitizeObject(obj) ==
    CASE obj.k = "str" -> Str(DOMPurifySanitize(obj.s))
      [] obj.k = "arr" ->
            [obj EXCEPT !.kids = [i \in 1..Len(obj.kids) |-> sanitizeObject(obj.kids[i])]]
      [] obj.k = "obj" ->
            LET keys == [i \in 1..Len(obj.keys) |-> DOMPurifySanitize(obj.keys[i])]
                slots == AssignAll(<<>>, keys, 1)
            IN  [obj EXCEPT !.keys = [j \in 1..Len(slots) |-> keys[slots[j]]],
                            !.kids = [j \in 1..Len(slots) |-> sanitizeObject(obj.kids[slots[j]])]]
      [] OTHER -> obj

-----------------------------------------------------------------------------
(* Complexity scorer                                                       *)

\* maxDepth = Math.max(maxDepth, sub.depth); fieldCount += sub.fieldCount,
\* for every sub-result of a loop
RECURSIVE FoldComplexity(_, _)
FoldComplexity(acc, subs) ==
    IF subs = <<>> THEN acc
    ELSE FoldComplexity([depth |-> Max(acc.depth, Head(subs).depth),
                         fieldCount |-> acc.fieldCount + Head(subs).fieldCount],
                        Tail(subs))

\* the loop over the keys of an object, the values not measured
processObjectComplexityFlat(vals, depth) ==
    [i \in 1..Len(vals) |-> [depth |-> depth, fieldCount |-> 0]]

\* the loop over the keys of an object, an array or object among the values
\* taken to lie one level down whatever the level
processObjectComplexityUncapped(vals, depth) ==
    [i \in 1..Len(vals) |->
        [depth |-> IF IsObjectLike(vals[i]) THEN depth + 1 ELSE depth,
         fieldCount |-> 0]]

RECURSIVE calculateJsonComplexity(_, _)
RECURSIVE processArrayComplexity(_, _)
RECURSIVE processObjectComplexity(_, _)

\* the loop over the items of an array: what each item adds
processArrayComplexity(arr, depth) ==
    [i \in 1..Len(arr) |->
        IF IsObjectLike(arr[i]) THEN calculateJsonComplexity(arr[i], depth + 1)
        ELSE [depth |-> depth, fieldCount |-> 0]]

\* the loop over the keys of an object: what each value adds
processObjectComplexity(vals, depth) ==
    [i \in 1..Len(vals) |->
        IF IsObjectLike(vals[i]) THEN calculateJsonComplexity(vals[i], depth + 1)
        ELSE [depth |-> depth, fieldCount |-> 0]]

calculateJsonComplexity(obj, depth) ==
    CASE depth > 50 -> [depth |-> 50, fieldCount |-> 0]
      [] obj.k = "arr" ->
            FoldComplexity([depth |-> depth, fieldCount |-> Len(obj.kids)],
                           processArrayComplexity(obj.kids, depth))
      [] obj.k = "obj" ->
            FoldComplexity([depth |-> depth, fieldCount |-> Len(obj.keys) + obj.pad],
                           processObjectComplexity(obj.kids, depth))
      [] OTHER -> [depth |-> depth, fieldCount |-> 0]

-----------------------------------------------------------------------------
(* The complexity scorer call by call.  A value on the heap may refer to   *)
(* itself, so here a value is an address and the heap gives, for every     *)
(* address, the kind of the value and the addresses of its elements or of  *)
(* the values of its keys.                                                 *)

\* what calculateJsonComplexity answers
Complexity(depth, fieldCount) == [depth |-> depth, fieldCount |-> fieldCount]

\* a call of calculateJsonComplexity(obj, depth):
\*   i            0 at the entry of the function, then the index of the loop
\*                of processArrayComplexity or processObjectComplexity
\*   maxDepth, fieldCount   the locals of the function
Frame(obj, depth) ==
    [obj |-> obj, depth |-> depth, i |-> 0, maxDepth |-> depth, fieldCount |-> 0]

\* no call is in progress
\*   at       "idle", "measured" (the result of one call is at hand),
\*            "running" (a call is on the stack) or "returned"
\*   value, start, result   the arguments and the result of a call
\*   inArray, inObject      the results for [value] and {nested: value}
\*   heap, stack            the heap the value lives on and the call stack
\*   last                   the depth and the result of the call that returned last
ScorerIdle ==
    [ at |-> "idle", value |-> Undef, start |-> 0,
      result |-> Complexity(0, 0), inArray |-> Complexity(0, 0),
      inObject |-> Complexity(0, 0),
      heap |-> <<>>, stack |-> <<>>,
      last |-> [depth |-> 0, result |-> Complexity(0, 0)] ]

\* the circuit breaker, a level late
CircuitBreakerLate(depth) == depth > 51

\* if (depth > 50) return { depth: 50, fieldCount: 0 }
CircuitBreaker(depth) == depth > 50

\* the call on top of the stack returns r to its caller, which folds it into
\* its locals and goes on with its loop
ReturnComplexity(s, r) ==
    LET n == Len(s.stack)
        returned == [s EXCEPT !.last = [depth |-> s.stack[n].depth, result |-> r]]
    IN  IF n = 1
        THEN [returned EXCEPT !.at = "returned", !.stack = <<>>, !.result = r]
        ELSE [returned EXCEPT
                !.stack = [SubSeq(s.stack, 1, n - 1) EXCEPT
                             ![n - 1] = [@ EXCEPT !.maxDepth = Max(@, r.depth),
                                                  !.fieldCount = @ + r.fieldCount,
                                                  !.i = @ + 1]]]

\* the call on top of the stack, from its entry to the loop over its elements
enterComplexity(s) ==
    LET n == Len(s.stack)
        f == s.stack[n]
        v == s.heap[f.obj]
    IN  IF CircuitBreaker(f.depth) THEN ReturnComplexity(s, Complexity(50, 0))
        ELSE IF v.k \in {"arr", "obj"}
        THEN [s EXCEPT !.stack[n] = [f EXCEPT !.i = 1, !.fieldCount = Len(v.refs)]]
        ELSE ReturnComplexity(s, Complexity(f.depth, 0))

\* one turn of the loop of processArrayComplexity or processObjectComplexity
stepComplexity(s) ==
    LET n == Len(s.stack)
        f == s.stack[n]
        v == s.heap[f.obj]
    IN  IF f.i > Len(v.refs)
        THEN ReturnComplexity(s, Complexity(f.maxDepth, f.fieldCount))
        ELSE IF s.heap[v.refs[f.i]].k \in {"arr", "obj"}
        THEN [s EXCEPT !.stack = Append(@, Frame(v.refs[f.i], f.depth + 1))]
        ELSE [s EXCEPT !.stack[n] = [f EXCEPT !.i = @ + 1]]

-----------------------------------------------------------------------------
(* Pattern matchers: the lexemes whose text each pattern list matches      *)

\* suspiciousPatterns of sqlInjectionProtection: /\b(OR|AND)\s+\d+\s*=\s*\d+/i
\* matches both lexemes, /--\s*$/ the first one at the end of a string.
SqlLexemes == { "admin@test.com' OR 1=1 --", "1 OR 1=1" }

\* legitTerms of checkForSqlInjection, matched against the whole string
LegitLexemes == { "javascript" }

\* suspiciousPathPatterns: /\.\.[/\\]/ anywhere in the string
PathLexemes == { "../../../etc/passwd" }

\* suspiciousPathPatterns: /^(CON|PRN|AUX|NUL|COM[1-9]|LPT[1-9])$/i, whole string
ReservedNameLexemes == { "CON" }

\* redosAttackPatterns: /a{50,}/
RedosLexemes == { "aaaaaaaaaaaaaaaaaaaaaaaaaaaaaaaaaaaaaaaaaaaaaaaaaaaaaaaaaaaa" }

\* domClobberingPatterns: <form>, <input name=eval>, <div id=__webpack_require__>,
\* constructor.constructor
DomLexemes ==
    { "<form>", "<input name=\"eval\">", "<div id=\"__webpack_require__\">",
      "{{constructor.constructor(\"alert(1)\")()}}" }

\* templatePatterns: {{...}}, ${...}, constructor.constructor
TemplateLexemes == { "{{constructor.constructor(\"alert(1)\")()}}", "${7*7}" }

\* cssPatterns: /expression\s*\(/i
CssLexemes == { "div { width: expression(alert(1)); }" }

HasLexeme(s, set) == \E i \in 1..Len(s) : s[i] \in set

\* The lexemes of a cookie header.  ";" separates the entries; "\t" is the
\* control character an HTTP parser lets through in a header value; the three
\* lexemes in angle brackets stand for a name and a value of x's of the length
\* given in CookieLexLen.
CookieSeparator == ";"

CookieControlLexemes == { "\t" }

\* maliciousCookiePatterns: __proto__[, constructor., javascript:, document.,
\* ../ or ..\, <script
MaliciousCookieLexemes ==
    { "__proto__[isAdmin]=true", "token=javascript:alert(1)",
      "user=../../../etc/passwd", "session=\"constructor.constructor",
      " document.cookie=\"admin=true", "x=<script>", "<big=x..x __proto__[>" }

CookieLexemes ==
    { CookieSeparator, "session=abc123", " theme=dark", "session=\"",
      "<fit=x..x>", "<big=x..x>", "<huge=x..x>" }
    \cup CookieControlLexemes \cup MaliciousCookieLexemes

CookieLexLen ==
    [ l \in CookieLexemes |->
        CASE l = ";" -> 1
          [] l = "\t" -> 1
          [] l = "session=abc123" -> 14
          [] l = " theme=dark" -> 11
          [] l = "session=\"" -> 9
          [] l = "__proto__[isAdmin]=true" -> 23
          [] l = "token=javascript:alert(1)" -> 25
          [] l = "user=../../../etc/passwd" -> 24
          [] l = "session=\"constructor.constructor" -> 32
          [] l = " document.cookie=\"admin=true" -> 28
          [] l = "x=<script>" -> 10
          [] l = "<fit=x..x>" -> 4096
          [] l = "<big=x..x>" -> 4097
          [] l = "<big=x..x __proto__[>" -> 4097
          [] l = "<huge=x..x>" -> 8193 ]

\* cookieHeader.length
CookieLen(h) == SumLen(h, CookieLexLen)

\* cookieHeader.split('').some(char => code 0..31 or 127..159)
hasControlChars(h) == HasLexeme(h, CookieControlLexemes)

\* maliciousCookiePatterns.some(pattern => pattern.test(cookieHeader))
CookieIsMatch(h) == HasLexeme(h, MaliciousCookieLexemes)

\* the lengths of cookieHeader.split(';'), cur being the length of the entry
\* that is being read
RECURSIVE SplitLens(_, _)
SplitLens(h, cur) ==
    IF h = <<>> THEN <<cur>>
    ELSE IF Head(h) = CookieSeparator THEN <<cur>> \o SplitLens(Tail(h), 0)
    ELSE SplitLens(Tail(h), cur + CookieLexLen[Head(h)])

\* some entry of cookieHeader.split(';') is longer than 4096 characters
HasLongCookie(h) ==
    LET lens == SplitLens(h, 0) IN \E i \in 1..Len(lens) : lens[i] > 4096

\* the string case of checkForSqlInjection
SqlIsMatch(s) ==
    IF StrLen(s) < 10 THEN FALSE
    ELSE IF Len(s) = 1 /\ s[1] \in LegitLexemes THEN FALSE
    ELSE HasLexeme(s, SqlLexemes)

RECURSIVE checkForSqlInjection(_)
checkForSqlInjection(obj) ==
    CASE obj.k = "str" -> SqlIsMatch(obj.s)
      [] obj.k \in {"arr", "obj"} ->
            \E i \in 1..Len(obj.kids) : checkForSqlInjection(obj.kids[i])
      [] OTHER -> FALSE

\* the string case of checkPath
PathIsMatch(s) ==
    HasLexeme(s, PathLexemes) \/ (Len(s) = 1 /\ s[1] \in ReservedNameLexemes)

RECURSIVE checkPath(_)
checkPath(value) ==
    CASE value.k = "str" -> PathIsMatch(value.s)
      [] value.k \in {"arr", "obj"} ->
            \E i \in 1..Len(value.kids) : checkPath(value.kids[i])
      [] OTHER -> FALSE

\* the string case of checkForRedosInput (no string of the model is longer
\* than 50000 characters)
RedosIsMatch(s) == HasLexeme(s, RedosLexemes)

RECURSIVE checkForRedosInput(_)
checkForRedosInput(obj) ==
    CASE obj.k = "str" -> RedosIsMatch(obj.s)
      [] obj.k \in {"arr", "obj"} ->
            \E i \in 1..Len(obj.kids) : checkForRedosInput(obj.kids[i])
      [] OTHER -> FALSE

DomIsMatch(s) == HasLexeme(s, DomLexemes)

\* checkForDomClobbering tests the keys of an object before its values
RECURSIVE checkForDomClobbering(_)
checkForDomClobbering(obj) ==
    CASE obj.k = "str" -> DomIsMatch(obj.s)
      [] obj.k = "arr" ->
            \E i \in 1..Len(obj.kids) : checkForDomClobbering(obj.kids[i])
      [] obj.k = "obj" ->
            \/ \E i \in 1..Len(obj.keys) : DomIsMatch(obj.keys[i])
            \/ \E i \in 1..Len(obj.kids) : checkForDomClobbering(obj.kids[i])
      [] OTHER -> FALSE

TemplateIsMatch(s) == HasLexeme(s, TemplateLexemes)

RECURSIVE checkForTemplateInjection(_)
checkForTemplateInjection(obj) ==
    CASE obj.k = "str" -> TemplateIsMatch(obj.s)
      [] obj.k \in {"arr", "obj"} ->
            \E i \in 1..Len(obj.kids) : checkForTemplateInjection(obj.kids[i])
      [] OTHER -> FALSE

CssIsMatch(s) == HasLexeme(s, CssLexemes)

RECURSIVE checkForMaliciousCSS(_)
checkForMaliciousCSS(obj) ==
    CASE obj.k = "str" -> CssIsMatch(obj.s)
      [] obj.k \in {"arr", "obj"} ->
            \E i \in 1..Len(obj.kids) : checkForMaliciousCSS(obj.kids[i])
      [] OTHER -> FALSE

-----------------------------------------------------------------------------
(* Requests and stage results                                              *)

\* No response has been written.
\* the fields a response body carries besides error and code, as a set of
\* <<name, number>> pairs (the name of the offending header, the one field
\* that is a string, is left out)
NoDetail == {}

NoResp == [status |-> 0, code |-> "", error |-> "", detail |-> NoDetail]

\* the stage called next()
CallNext == [resp |-> NoResp, next |-> TRUE]

\* return res.status(status).json({error, code, ...})
Reject(status, code, error) ==
    [ resp |-> [status |-> status, code |-> code, error |-> error,
                detail |-> NoDetail],
      next |-> FALSE ]

\* res.status(status).json(...) without the return: the stage goes on to next()
RejectAndFallThrough(status, code, error) ==
    [ resp |-> [status |-> status, code |-> code, error |-> error,
                detail |-> NoDetail],
      next |-> TRUE ]

\* the further fields of the json body of a response
With(result, detail) == [result EXCEPT !.resp.detail = detail]

\* A request:
\*   ip             req.ip
\*   contentLength  the content-length header as parseInt reads it, -1 when absent
\*   body, query, params   JSON values
\*   path           req.path, a string
\*   headers        count: number of header entries, the cookie header
\*                  included; longest: length of the longest value of the
\*                  headers other than cookie
\*   cookie         present: the request has a cookie header; header: its
\*                  value, a sequence of cookie lexemes
\*   file           present: req.file is set; originalname: its name
\*   validateRedirect   redirectProtection attached req.validateRedirect

-----------------------------------------------------------------------------
(* Rate limiter (express-rate-limit with its default memory store)         *)

windowMs == 15 * 60 * 1000

\* max: process.env.NODE_ENV === 'test' ? 10000 : 100
RateMax(env) == IF env = "test" THEN 10000 ELSE 100

\* skip: development or test, and the request comes from localhost
skip(r, env) == env \in {"development", "test"} /\ r.ip = "127.0.0.1"

\* the window of a client that has one has elapsed
Expired(h, a, key) == h[key] > 0 /\ a[key] >= windowMs

\* totalHits of the client after this request: a client without a window, or
\* whose window has elapsed, starts a new one
HitsAfter(h, a, key) == IF Expired(h, a, key) THEN 1 ELSE h[key] + 1

\* a limiter that admits one request too many
rateLimiterOffByOne(r, env, h, a) ==
    IF skip(r, env) THEN CallNext
    ELSE IF HitsAfter(h, a, r.ip) > RateMax(env) + 1
         THEN Reject(429, "RATE_LIMIT_EXCEEDED",
                     "Too many requests from this IP, please try again later.")
         ELSE CallNext

\* a limiter whose store never starts a new window
rateLimiterNoReset(r, env, h, a) ==
    IF skip(r, env) THEN CallNext
    ELSE IF h[r.ip] + 1 > RateMax(env)
         THEN Reject(429, "RATE_LIMIT_EXCEEDED",
                     "Too many requests from this IP, please try again later.")
         ELSE CallNext

\* the verdict of rateLimiter on request r with the store (h, a)
rateLimiter(r, env, h, a) ==
    IF skip(r, env) THEN CallNext
    ELSE IF HitsAfter(h, a, r.ip) > RateMax(env)
         THEN Reject(429, "RATE_LIMIT_EXCEEDED",
                     "Too many requests from this IP, please try again later.")
         ELSE CallNext

\* max of authRateLimiter
authMax == 5

\* the verdict of authRateLimiter on request r with its own store h, inside
\* one window: the store counts the request and the new total is compared
authRateLimiter(r, h) ==
    IF h[r.ip] + 1 > authMax
    THEN Reject(429, "AUTH_RATE_LIMIT_EXCEEDED",
                "Too many authentication attempts, please try again later.")
    ELSE CallNext

-----------------------------------------------------------------------------
(* Stages                                                                  *)

maxSize == 5 * 1024 * 1024

\* dosProtection with the field-count check ahead of the depth check
dosProtectionFieldsFirst(r) ==
    IF r.contentLength > maxSize
    THEN With(Reject(413, "PAYLOAD_TOO_LARGE", "Request entity too large"),
              {<<"maxSize", maxSize>>})
    ELSE IF Truthy(r.body) /\ IsObjectLike(r.body)
    THEN LET complexity == calculateJsonComplexity(r.body, 0)
         IN  IF complexity.fieldCount > 5000
             THEN With(Reject(400, "EXCESSIVE_FIELDS", "Too many fields in request"),
                       {<<"maxFields", 5000>>})
             ELSE IF complexity.depth > 20
             THEN With(Reject(400, "EXCESSIVE_NESTING", "JSON structure too deeply nested"),
                       {<<"maxDepth", 20>>})
             ELSE CallNext
    ELSE CallNext

\* dosProtection comparing with >= where the source compares with >
dosProtectionInclusive(r) ==
    IF r.contentLength > maxSize
    THEN With(Reject(413, "PAYLOAD_TOO_LARGE", "Request entity too large"),
              {<<"maxSize", maxSize>>})
    ELSE IF Truthy(r.body) /\ IsObjectLike(r.body)
    THEN LET complexity == calculateJsonComplexity(r.body, 0)
         IN  IF complexity.depth >= 20
             THEN With(Reject(400, "EXCESSIVE_NESTING", "JSON structure too deeply nested"),
                       {<<"maxDepth", 20>>})
             ELSE IF complexity.fieldCount >= 5000
             THEN With(Reject(400, "EXCESSIVE_FIELDS", "Too many fields in request"),
                       {<<"maxFields", 5000>>})
             ELSE CallNext
    ELSE CallNext

\* dosProtection refusing a declared length equal to the limit
dosProtectionSizeInclusive(r) ==
    IF r.contentLength >= maxSize
    THEN With(Reject(413, "PAYLOAD_TOO_LARGE", "Request entity too large"),
              {<<"maxSize", maxSize>>})
    ELSE IF Truthy(r.body) /\ IsObjectLike(r.body)
    THEN LET complexity == calculateJsonComplexity(r.body, 0)
         IN  IF complexity.depth > 20
             THEN With(Reject(400, "EXCESSIVE_NESTING", "JSON structure too deeply nested"),
                       {<<"maxDepth", 20>>})
             ELSE IF complexity.fieldCount > 5000
             THEN With(Reject(400, "EXCESSIVE_FIELDS", "Too many fields in request"),
                       {<<"maxFields", 5000>>})
             ELSE CallNext
    ELSE CallNext

\* dosProtection without the return in front of its responses
dosProtectionNoReturn(r) ==
    IF r.contentLength > maxSize
    THEN With(RejectAndFallThrough(413, "PAYLOAD_TOO_LARGE", "Request entity too large"),
              {<<"maxSize", maxSize>>})
    ELSE IF Truthy(r.body) /\ IsObjectLike(r.body)
    THEN LET complexity == calculateJsonComplexity(r.body, 0)
         IN  IF complexity.depth > 20
             THEN With(RejectAndFallThrough(400, "EXCESSIVE_NESTING",
                                       "JSON structure too deeply nested"),
                       {<<"maxDepth", 20>>})
             ELSE IF complexity.fieldCount > 5000
             THEN With(RejectAndFallThrough(400, "EXCESSIVE_FIELDS",
                                       "Too many fields in request"),
                       {<<"maxFields", 5000>>})
             ELSE CallNext
    ELSE CallNext

dosProtection(r) ==
    IF r.contentLength > maxSize
    THEN With(Reject(413, "PAYLOAD_TOO_LARGE", "Request entity too large"),
              {<<"maxSize", maxSize>>})
    ELSE IF Truthy(r.body) /\ IsObjectLike(r.body)
    THEN LET complexity == calculateJsonComplexity(r.body, 0)
         IN  IF complexity.depth > 20
             THEN With(Reject(400, "EXCESSIVE_NESTING", "JSON structure too deeply nested"),
                       {<<"maxDepth", 20>>})
             ELSE IF complexity.fieldCount > 5000
             THEN With(Reject(400, "EXCESSIVE_FIELDS", "Too many fields in request"),
                       {<<"maxFields", 5000>>})
             ELSE CallNext
    ELSE CallNext

\* the length of the longest header value, the cookie header among them
LongestHeaderValue(r) ==
    Max(r.headers.longest, IF r.cookie.present THEN CookieLen(r.cookie.header) ELSE 0)

\* headerFloodProtection refusing a request with exactly the maximum of headers
headerFloodProtectionInclusive(r) ==
    IF r.headers.count >= 100
    THEN With(Reject(400, "HEADER_FLOOD_DETECTED", "Too many HTTP headers"),
              {<<"headerCount", r.headers.count>>, <<"maxHeaders", 100>>})
    ELSE IF LongestHeaderValue(r) > 8192
    THEN With(Reject(400, "HEADER_TOO_LONG", "Header value too long"),
              {<<"length", LongestHeaderValue(r)>>, <<"maxLength", 8192>>})
    ELSE CallNext

\* headers.count is Object.keys(req.headers).length, headers.longest the
\* length of the longest header value
headerFloodProtection(r) ==
    IF r.headers.count > 100
    THEN With(Reject(400, "HEADER_FLOOD_DETECTED", "Too many HTTP headers"),
              {<<"headerCount", r.headers.count>>, <<"maxHeaders", 100>>})
    ELSE IF LongestHeaderValue(r) > 8192
    THEN With(Reject(400, "HEADER_TOO_LONG", "Header value too long"),
              {<<"length", LongestHeaderValue(r)>>, <<"maxLength", 8192>>})
    ELSE CallNext

\* cookieParsingProtection with the length check in front of the patterns
cookieParsingProtectionLengthFirst(r) ==
    IF r.cookie.present /\ r.cookie.header # <<>>
    THEN IF hasControlChars(r.cookie.header)
         THEN Reject(400, "MALICIOUS_COOKIE", "Invalid characters in cookie header")
         ELSE IF HasLongCookie(r.cookie.header)
         THEN With(Reject(400, "COOKIE_TOO_LONG", "Cookie value too long"),
                   {<<"maxLength", 4096>>})
         ELSE IF CookieIsMatch(r.cookie.header)
         THEN Reject(400, "MALICIOUS_COOKIE", "Malicious cookie detected")
         ELSE CallNext
    ELSE CallNext

\* if (cookieHeader): the header is there and is not the empty string
cookieParsingProtection(r) ==
    IF r.cookie.present /\ r.cookie.header # <<>>
    THEN IF hasControlChars(r.cookie.header)
         THEN Reject(400, "MALICIOUS_COOKIE", "Invalid characters in cookie header")
         ELSE IF CookieIsMatch(r.cookie.header)
         THEN Reject(400, "MALICIOUS_COOKIE", "Malicious cookie detected")
         ELSE IF HasLongCookie(r.cookie.header)
         THEN With(Reject(400, "COOKIE_TOO_LONG", "Cookie value too long"),
                   {<<"maxLength", 4096>>})
         ELSE CallNext
    ELSE CallNext

\* the request as xssProtection leaves it
xssSanitized(r) ==
    [r EXCEPT !.body = IF Truthy(r.body) THEN sanitizeObject(r.body) ELSE @,
              !.query = IF Truthy(r.query) THEN sanitizeObject(r.query) ELSE @]

\* an XSS stage that rejects markup where the source sanitizes it
xssProtectionRejecting(r) ==
    IF xssSanitized(r) # r
    THEN Reject(400, "XSS_DETECTED", "Potentially malicious markup detected")
    ELSE CallNext

xssProtection(r) == CallNext

\* sqlInjectionProtection scanning the query before the body
sqlInjectionProtectionQueryFirst(r) ==
    IF Truthy(r.query) /\ checkForSqlInjection(r.query)
    THEN Reject(400, "SUSPICIOUS_QUERY", "Potentially malicious query parameters")
    ELSE IF Truthy(r.body) /\ checkForSqlInjection(r.body)
    THEN Reject(400, "SUSPICIOUS_INPUT", "Potentially malicious input detected")
    ELSE CallNext

sqlInjectionProtection(r) ==
    IF Truthy(r.body) /\ checkForSqlInjection(r.body)
    THEN Reject(400, "SUSPICIOUS_INPUT", "Potentially malicious input detected")
    ELSE IF Truthy(r.query) /\ checkForSqlInjection(r.query)
    THEN Reject(400, "SUSPICIOUS_QUERY", "Potentially malicious query parameters")
    ELSE CallNext

\* pathTraversalProtection looking at the file name before body and query
pathTraversalProtectionFileFirst(r) ==
    IF PathIsMatch(r.path)
    THEN Reject(400, "INVALID_PATH", "Invalid path detected")
    ELSE IF r.file.present /\ PathIsMatch(r.file.originalname)
    THEN Reject(400, "INVALID_FILENAME", "Invalid filename")
    ELSE IF checkPath(r.body) \/ checkPath(r.query)
    THEN Reject(400, "PATH_TRAVERSAL_BLOCKED", "Path traversal attempt detected")
    ELSE CallNext

pathTraversalProtection(r) ==
    IF PathIsMatch(r.path)
    THEN Reject(400, "INVALID_PATH", "Invalid path detected")
    ELSE IF checkPath(r.body) \/ checkPath(r.query)
    THEN Reject(400, "PATH_TRAVERSAL_BLOCKED", "Path traversal attempt detected")
    ELSE IF r.file.present /\ PathIsMatch(r.file.originalname)
    THEN Reject(400, "INVALID_FILENAME", "Invalid filename")
    ELSE CallNext

redosProtection(r) ==
    IF Truthy(r.body) /\ checkForRedosInput(r.body)
    THEN Reject(400, "REDOS_PATTERN", "Potentially malicious pattern detected")
    ELSE IF Truthy(r.query) /\ checkForRedosInput(r.query)
    THEN Reject(400, "REDOS_PATTERN", "Potentially malicious query pattern detected")
    ELSE CallNext

\* domClobberingProtection answering with a code and no message
domClobberingProtectionNoError(r) ==
    IF checkForDomClobbering(r.body) \/ checkForDomClobbering(r.query)
       \/ checkForDomClobbering(r.params)
    THEN Reject(400, "DOM_CLOBBERING_BLOCKED", "")
    ELSE CallNext

domClobberingProtection(r) ==
    IF \/ checkForDomClobbering(r.body)
       \/ checkForDomClobbering(r.query)
       \/ checkForDomClobbering(r.params)
    THEN Reject(400, "DOM_CLOBBERING_BLOCKED", "Potential DOM clobbering attack detected")
    ELSE CallNext

templateInjectionProtection(r) ==
    IF \/ checkForTemplateInjection(r.body)
       \/ checkForTemplateInjection(r.query)
       \/ checkForTemplateInjection(r.params)
    THEN Reject(400, "TEMPLATE_INJECTION", "Potential template injection detected")
    ELSE CallNext

\* cssProtection answering with a code of its own making
cssProtectionUnlistedCode(r) ==
    IF checkForMaliciousCSS(r.body) \/ checkForMaliciousCSS(r.query)
    THEN Reject(400, "CSS_INJECTION", "Malicious CSS detected")
    ELSE CallNext

cssProtection(r) ==
    IF checkForMaliciousCSS(r.body) \/ checkForMaliciousCSS(r.query)
    THEN Reject(400, "MALICIOUS_CSS", "Malicious CSS detected")
    ELSE CallNext

-----------------------------------------------------------------------------
(* Middleware arrays                                                       *)

\* applySecurity with the sanitizer and the SQL stage ahead of dosProtection
applySecurityReordered ==
    << "securityHeaders", "rateLimiter", "xssProtection", "sqlInjectionProtection",
       "dosProtection", "pathTraversalProtection", "redosProtection" >>

applySecurity ==
    << "securityHeaders", "rateLimiter", "dosProtection", "xssProtection",
       "sqlInjectionProtection", "pathTraversalProtection", "redosProtection" >>

\* the enhanced array without the SQL-injection stage
enhancedSecurityWithoutSql ==
    << "securityHeaders", "rateLimiter", "dosProtection", "headerFloodProtection",
       "cookieParsingProtection", "redirectProtection", "xssProtection",
       "pathTraversalProtection", "redosProtection",
       "domClobberingProtection", "templateInjectionProtection", "cssProtection" >>

enhancedSecurity ==
    << "securityHeaders", "rateLimiter", "dosProtection", "headerFloodProtection",
       "cookieParsingProtection", "redirectProtection", "xssProtection",
       "sqlInjectionProtection", "pathTraversalProtection", "redosProtection",
       "domClobberingProtection", "templateInjectionProtection", "cssProtection" >>

-----------------------------------------------------------------------------
(* Kanban service and controllers (application/services/kanbanService.ts   *)
(* and its controllers).  The database is the table of applications and    *)
(* the table of interview steps, reached through the Prisma client; every  *)
(* await is a point at which the call is suspended.                        *)

\* a number of JavaScript: an integer or NaN
Number(n) == [nan |-> FALSE, n |-> n]

NaN == [nan |-> TRUE, n |-> 0]

\* the digits of the route parameters of the model
DigitVal == [c \in {"0", "1", "2", "9"} |-> CASE c = "0" -> 0 [] c = "1" -> 1
                                               [] c = "2" -> 2 [] c = "9" -> 9]

\* the value of the longest prefix of digits of s, after acc; seen: a digit
\* has been read
RECURSIVE ParseDigits(_, _, _)
ParseDigits(s, acc, seen) ==
    IF s # <<>> /\ Head(s) \in DOMAIN DigitVal
    THEN ParseDigits(Tail(s), 10 * acc + DigitVal[Head(s)], TRUE)
    ELSE IF seen THEN Number(acc) ELSE NaN

\* parseInt(s, 10): leading white space is skipped, a sign is read, and the
\* digits that follow are the value; NaN when no digit follows
RECURSIVE parseInt(_)
parseInt(s) ==
    IF s = <<>> THEN NaN
    ELSE IF Head(s) = " " THEN parseInt(Tail(s))
    ELSE IF Head(s) = "-"
    THEN LET v == ParseDigits(Tail(s), 0, FALSE)
         IN  IF v.nan THEN NaN ELSE Number(0 - v.n)
    ELSE ParseDigits(s, 0, FALSE)

\* isNaN(id) || id <= 0, and !id || id <= 0 of the services
NotPositive(id) == id.nan \/ id.n <= 0

\* s.trim(), " " being the white space of the stage names of the model
RECURSIVE TrimStart(_)
TrimStart(s) ==
    IF s # <<>> /\ Head(s) = " " THEN TrimStart(Tail(s)) ELSE s

RECURSIVE TrimEnd(_)
TrimEnd(s) ==
    IF s # <<>> /\ s[Len(s)] = " " THEN TrimEnd(SubSeq(s, 1, Len(s) - 1)) ELSE s

Trim(s) == TrimEnd(TrimStart(s))

\* the rows of interviewStep: id -> name
InterviewSteps == [i \in {1, 2} |-> IF i = 1 THEN <<"Initial Screening">>
                                    ELSE <<"Technical Interview">>]

\* the rows of application at the start: candidate 1 has applied twice
InitialApplications ==
    [a \in {1, 2, 3} |->
        [candidateId |-> IF a = 3 THEN 2 ELSE 1, currentInterviewStep |-> 1]]

\* the positions that exist; position 1 has the applications, position 2 none
Positions == {1, 2}

\* No call is in progress.
\*   at            "idle"; "controller": a request has reached its controller;
\*                 "findFirst", "updateMany", "findMany": the service awaits
\*                 that query; "settled": the promise of the service has
\*                 settled; "done": the response has been written
\*   route         "GET", "PUT", or "" for a call of the service itself
\*   id, stage     req.params.id and req.body.stage
\*   candidateId, newStage   the arguments of the service
\*   step          the interview step found, 0 for null
\*   outcome       "ok" or the message of the error thrown
\*   applications  the rows of application; before: as the call found them
\*   queries       the queries issued by the call, in order
\*   serviceCalls  calls of the service made for the request
\*   responses, status, error   the responses written, and the first of them
KanbanIdle ==
    [ at |-> "idle", route |-> "", id |-> <<>>, stage |-> Undef,
      candidateId |-> NaN, newStage |-> Undef, step |-> 0, outcome |-> "",
      applications |-> InitialApplications, before |-> InitialApplications,
      queries |-> <<>>, serviceCalls |-> 0,
      responses |-> 0, status |-> 0, error |-> "" ]

\* throw inside the async function: its promise is rejected
Throw(k, message) == [k EXCEPT !.at = "settled", !.outcome = message]

\* the query is sent and the call awaits it
Await(k, query) == [k EXCEPT !.at = query, !.queries = Append(@, query)]

\* !newStage || newStage.trim() === ''
BlankStage(newStage) ==
    newStage.k # "str" \/ Trim(newStage.s) = <<>>

\* updateCandidateStage(candidateId, newStage) up to its first await
updateCandidateStage(k, candidateId, newStage) ==
    LET call == [k EXCEPT !.candidateId = candidateId, !.newStage = newStage,
                          !.serviceCalls = @ + 1, !.before = k.applications]
    IN  IF NotPositive(candidateId) THEN Throw(call, "Invalid candidate ID")
        ELSE IF BlankStage(newStage) THEN Throw(call, "Invalid stage name")
        ELSE Await(call, "findFirst")

\* interviewStep.findFirst({where: {name}}): the id of a row, 0 for null
findFirst(name) ==
    IF \E i \in DOMAIN InterviewSteps : InterviewSteps[i] = name
    THEN CHOOSE i \in DOMAIN InterviewSteps : InterviewSteps[i] = name
    ELSE 0

\* application.updateMany({where: {candidateId}, data: {currentInterviewStep}})
updateMany(applications, candidateId, step) ==
    [a \in DOMAIN applications |->
        IF applications[a].candidateId = candidateId
        THEN [applications[a] EXCEPT !.currentInterviewStep = step]
        ELSE applications[a]]

Count(applications, candidateId) ==
    Cardinality({ a \in DOMAIN applications : applications[a].candidateId = candidateId })

\* updateCandidateStage going on to the update whatever the lookup found
afterFindFirstUnchecked(k, failed) ==
    IF failed THEN Throw(k, "Failed to update candidate stage")
    ELSE Await([k EXCEPT !.step = findFirst(Trim(k.newStage.s))], "updateMany")

\* updateCandidateStage from the answer of findFirst to its next await;
\* failed: the query was rejected
afterFindFirst(k, failed) ==
    IF failed THEN Throw(k, "Failed to update candidate stage")
    ELSE LET interviewStep == findFirst(Trim(k.newStage.s))
         IN  IF interviewStep = 0 THEN Throw(k, "Invalid stage name")
             ELSE Await([k EXCEPT !.step = interviewStep], "updateMany")

\* updateCandidateStage from the answer of updateMany to its end; the update
\* is one statement: it changes every row of the candidate or, rejected, none
afterUpdateMany(k, failed) ==
    IF failed THEN Throw(k, "Failed to update candidate stage")
    ELSE LET updated == [k EXCEPT !.applications =
                            updateMany(k.applications, k.candidateId.n, k.step)]
         IN  IF Count(k.applications, k.candidateId.n) = 0
             THEN Throw(updated, "Candidate application not found")
             ELSE [updated EXCEPT !.at = "settled", !.outcome = "ok"]

\* getPositionCandidates(positionId) up to its first await
getPositionCandidates(k, positionId) ==
    LET call == [k EXCEPT !.candidateId = positionId, !.serviceCalls = @ + 1,
                          !.before = k.applications]
    IN  IF NotPositive(positionId) THEN Throw(call, "Invalid position ID")
        ELSE Await(call, "findMany")

\* getPositionCandidates from the answer of findMany to its end: it only reads
afterFindMany(k, failed) ==
    IF failed THEN Throw(k, "Failed to retrieve candidates for position")
    ELSE IF k.candidateId.n \notin Positions THEN Throw(k, "Position not found")
    ELSE [k EXCEPT !.at = "settled", !.outcome = "ok"]

\* res.status(status).json({error}), or json(result) when error is ""
Respond(k, status, error) ==
    [k EXCEPT !.at = "done",
              !.responses = @ + 1,
              !.status = IF k.responses = 0 THEN status ELSE @,
              !.error = IF k.responses = 0 THEN error ELSE @]

\* getPositionCandidatesController calling the service with whatever parseInt gave
getPositionCandidatesControllerUnchecked(k) ==
    getPositionCandidates(k, parseInt(k.id))

\* getPositionCandidatesController up to its await
getPositionCandidatesController(k) ==
    LET positionId == parseInt(k.id)
    IN  IF NotPositive(positionId) THEN Respond(k, 400, "Invalid position ID format")
        ELSE getPositionCandidates(k, positionId)

\* updateCandidateStageController up to its await
updateCandidateStageController(k) ==
    LET candidateId == parseInt(k.id)
    IN  IF NotPositive(candidateId) THEN Respond(k, 400, "Invalid candidate ID format")
        ELSE IF k.stage.k \in {"undef", "null"} THEN Respond(k, 400, "Stage is required")
        ELSE IF k.stage.k # "str" THEN Respond(k, 400, "Stage must be a string")
        ELSE IF Trim(k.stage.s) = <<>> THEN Respond(k, 400, "Stage cannot be empty")
        ELSE updateCandidateStage(k, candidateId, k.stage)

\* the status the catch block of the controller of a route answers an error of
\* the service with; any other error is answered 500
BadRequestErrors(route) ==
    IF route = "GET" THEN {"Invalid position ID"}
    ELSE {"Invalid candidate ID", "Invalid stage name"}

NotFoundErrors(route) ==
    IF route = "GET" THEN {"Position not found"}
    ELSE {"Candidate application not found"}

\* the controller after its await: the result, or the catch block
afterService(k) ==
    CASE k.outcome = "ok" -> Respond(k, 200, "")
      [] k.outcome \in BadRequestErrors(k.route) -> Respond(k, 400, k.outcome)
      [] k.outcome \in NotFoundErrors(k.route) -> Respond(k, 404, k.outcome)
      [] OTHER -> Respond(k, 500, "Internal server error")

-----------------------------------------------------------------------------
(* Inputs                                                                  *)

\* the generator of the tests: depth objects around a leaf
RECURSIVE Nest(_, _)
Nest(depth, obj) ==
    IF depth = 0 THEN obj
    ELSE Nest(depth - 1,
              [k |-> "obj", s |-> <<>>, keys |-> << <<"nested">> >>,
               kids |-> <<obj>>, pad |-> 0])

createNestedObject(depth) == Nest(depth, Str(<<"deep">>))

\* the generator of the tests: count fields field<i>: "value<i>"
createObjectWithFields(count) == PadObj(<<>>, <<>>, count)

\* the body the boundary tests send: {depth: d, data: createNestedObject(d)}
NestingTest(d) ==
    Obj(<< <<"depth">>, <<"data">> >>, << Num, createNestedObject(d) >>)

\* the body the boundary tests send: {fieldCount: n, data: createObjectWithFields(n)}
FieldTest(n) ==
    Obj(<< <<"fieldCount">>, <<"data">> >>, << Num, createObjectWithFields(n) >>)

IPs == { "127.0.0.1", "203.0.113.7" }

EmptyObject == Obj(<<>>, <<>>)

NoCookie == [present |-> FALSE, header |-> <<>>]

\* req.headers.cookie is the string h
Cookie(h) == [present |-> TRUE, header |-> h]

NoFile == [present |-> FALSE, originalname |-> <<>>]

ValidBody ==
    Obj(<< <<"name">>, <<"email">> >>, << Str(<<"John Doe">>), Str(<<"ok">>) >>)

\* {content: '<script>alert(1)</script>', name: 'ok'}
XssExampleBody ==
    Obj(<< <<"content">>, <<"name">> >>,
        << Str(<<"<script>", "alert(1)", "</script>">>), Str(<<"ok">>) >>)

\* {email: "admin@test.com' OR 1=1 --", password: 'password'}
SqlExampleBody ==
    Obj(<< <<"email">>, <<"password">> >>,
        << Str(<<"admin@test.com' OR 1=1 --">>), Str(<<"password">>) >>)

\* a POST request that no stage rejects
BaseReq ==
    [ ip |-> "203.0.113.7",
      contentLength |-> 64,
      body |-> ValidBody,
      query |-> EmptyObject,
      params |-> EmptyObject,
      path |-> <<"/test">>,
      headers |-> [count |-> 8, longest |-> 64],
      cookie |-> NoCookie,
      file |-> NoFile,
      validateRedirect |-> FALSE ]

\* Bound: the deepest body of the nesting inputs.
MaxNesting == 22

\* Bound: the longest string of the sanitizer inputs, in lexemes.
MaxStrLexemes == 2

\* Bound: the requests that arrive in one run of the whole pipeline.
MaxRequests == 2

\* Bound: the requests a client sends beyond its budget within one window.
MaxOver == 2

\* Bound: the requests that are inside rateLimiter at the same time.
MaxConcurrent == 3

\* Bound: the longest generated cookie header, in lexemes.
MaxCookieLexemes == 2

\* Bound: the longest route parameter, in characters.
MaxIdChars == 2

\* Bound: the levels of arrays and objects around the measured values.
MaxWrap == 3

\* Bound: the depths beyond the circuit breaker the function is entered at.
MaxOverDepth == 2

\* a request that was not sent
NotSent == [phase |-> "idle", ip |-> "", totalHits |-> 0]

NestingDepths == 0..MaxNesting

FieldCounts == { 0, 1, 4997, 4998, 4999, 5000, 5001, 5002, 6000 }

ContentLengths == { -1, 0, 64, maxSize, maxSize + 1 }

DosBodies ==
    { createNestedObject(d) : d \in NestingDepths }
    \cup { NestingTest(d) : d \in NestingDepths }
    \cup { Arr(<< createNestedObject(d) >>) : d \in NestingDepths }
    \cup { createObjectWithFields(n) : n \in FieldCounts }
    \cup { FieldTest(n) : n \in FieldCounts }
    \cup { PadObj(<< <<"nested">> >>, << createNestedObject(d) >>, n) :
             d \in {19, 20, 21, 22}, n \in FieldCounts }
    \cup { Undef, Str(<<"ok">>), Num }

DosRequests ==
    { [BaseReq EXCEPT !.body = b, !.contentLength = c] :
        b \in DosBodies, c \in ContentLengths }

\* the strings of the sanitizer inputs
XssAlphabet ==
    { "<script>", "</script>", "<b>", "</b>", " < ", " &lt; ", " & ", " &amp; ",
      "ok", "alert(1)" }

RECURSIVE StringsUpTo(_)
StringsUpTo(n) ==
    IF n = 0 THEN { <<>> }
    ELSE LET shorter == StringsUpTo(n - 1)
         IN  shorter \cup { Append(s, l) : s \in shorter, l \in XssAlphabet }

XssStrings ==
    StringsUpTo(MaxStrLexemes)
    \cup { <<"<script>", "alert(1)", "</script>">>, <<"<b>", "ok", "</b>">>,
           <<"<script>", "ok", "</script>", "ok">> }

XssKeys ==
    { <<"name">>, <<"content">>, <<"<b>", "name", "</b>">>, <<"name", " < ">>,
      <<"<script>", "name">> }

XssLeaves ==
    { Str(s) : s \in { <<>>, <<"ok">>, <<"<b>", "ok", "</b>">>, <<" < ">>,
                       <<" &lt; ">>, <<"<script>", "alert(1)", "</script>">> } }
    \cup { Num, Null }

XssBodies ==
    { Str(s) : s \in XssStrings }
    \cup { Obj(<<p[1], p[2]>>, <<v1, v2>>) :
             p \in { q \in XssKeys \X XssKeys : q[1] # q[2] },
             v1 \in XssLeaves, v2 \in XssLeaves }
    \cup { Arr(<<v1, Obj(<<k1>>, <<v2>>)>>) :
             k1 \in XssKeys, v1 \in XssLeaves, v2 \in XssLeaves }
    \cup { PadObj(<< k1 >>, << Obj(<<k2>>, <<v1>>) >>, 2) :
             k1 \in XssKeys, k2 \in XssKeys, v1 \in XssLeaves }
    \cup { XssExampleBody, Undef }

XssQueries ==
    { EmptyObject, Obj(<< <<"name">> >>, << Str(<<"<b>", "ok", "</b>">>) >>) }

XssRequests ==
    { [BaseReq EXCEPT !.body = b, !.query = q] : b \in XssBodies, q \in XssQueries }

RateRequests == { [BaseReq EXCEPT !.ip = i] : i \in IPs }

\* bodies of the requests sent through the whole pipeline
\* items of maliciousTestData.domClobbering: {html: '<div
\* id="__webpack_require__">malicious</div>'}, {content: '<form><input
\* name="eval"></form>'}, {name: 'constructor'}
domClobbering ==
    { Obj(<< <<"html">> >>,
          << Str(<<"<div id=\"__webpack_require__\">", "malicious", "</div>">>) >>),
      Obj(<< <<"content">> >>,
          << Str(<<"<form>", "<input name=\"eval\">", "</form>">>) >>),
      Obj(<< <<"name">> >>, << Str(<<"constructor">>) >>) }

\* {name: 'John Doe', email: 'R & D'}
AmpersandBody ==
    Obj(<< <<"name">>, <<"email">> >>,
        << Str(<<"John Doe">>), Str(<<"ok", " & ", "ok">>) >>)

\* JSON.parse('{"name": "John Doe", "__proto__": {"isAdmin": 1}}')
ProtoBody ==
    Obj(<< <<"name">>, <<"__proto__">> >>,
        << Str(<<"John Doe">>), Obj(<< <<"isAdmin">> >>, << Num >>) >>)

PipeBodies ==
    domClobbering \cup
    { ValidBody, AmpersandBody, ProtoBody, XssExampleBody, SqlExampleBody, Undef,
      Nest(22, Str(<<"admin@test.com' OR 1=1 --">>)),
      PadObj(<< <<"nested">> >>, << createNestedObject(22) >>, 5001),
      createObjectWithFields(5001),
      Obj(<< <<"id">> >>, << Str(<<"1 OR 1=1">>) >>),
      Obj(<< <<"expression">> >>, << Str(<<"{{constructor.constructor(\"alert(1)\")()}}">>) >>),
      Obj(<< <<"template">> >>, << Str(<<"${7*7}">>) >>),
      Obj(<< <<"html">> >>,
          << Str(<<"<div id=\"__webpack_require__\">", "malicious", "</div>">>) >>),
      Obj(<< <<"content">>, <<"template">> >>,
          << Str(<<"<form>", "<input name=\"eval\">", "</form>">>), Str(<<"${7*7}">>) >>),
      Obj(<< <<"file">> >>, << Str(<<"../../../etc/passwd">>) >>),
      Obj(<< <<"pattern">> >>,
          << Str(<<"aaaaaaaaaaaaaaaaaaaaaaaaaaaaaaaaaaaaaaaaaaaaaaaaaaaaaaaaaaaa">>) >>),
      Obj(<< <<"css">> >>, << Str(<<"div { width: expression(alert(1)); }">>) >>),
      Obj(<< <<"<b>", "name", "</b>">>, <<"name">> >>,
          << Str(<<"ok">>), Str(<<"John Doe">>) >>),
      Arr(<< Str(<<"javascript">>), Str(<<"CON">>) >>) }
    \cup { FieldTest(n) : n \in { 1, 4998, 4999, 5000, 5001 } }
    \cup { NestingTest(d) : d \in { 20, 21 } }

\* the base request changed in one place outside the body
PipeVariants(r) ==
    { r,
      [r EXCEPT !.ip = "127.0.0.1"],
      [r EXCEPT !.contentLength = maxSize + 1],
      [r EXCEPT !.headers = [count |-> 150, longest |-> 64]],
      [r EXCEPT !.headers = [count |-> 100, longest |-> 9000]],
      [r EXCEPT !.cookie = Cookie(<<"user=../../../etc/passwd">>)],
      [r EXCEPT !.cookie = Cookie(<<"session=abc123", ";", "<big=x..x>">>)],
      [r EXCEPT !.query = Obj(<< <<"q">> >>, << Str(<<"admin@test.com' OR 1=1 --">>) >>)],
      [r EXCEPT !.path = <<"../../../etc/passwd">>],
      [r EXCEPT !.file = [present |-> TRUE, originalname |-> <<"CON">>]] }

PipeRequests ==
    { [BaseReq EXCEPT !.body = b] : b \in PipeBodies }
    \cup UNION { PipeVariants([BaseReq EXCEPT !.body = b]) :
                   b \in { ValidBody, SqlExampleBody,
                           Nest(22, Str(<<"admin@test.com' OR 1=1 --">>)),
                           Obj(<< <<"template">> >>, << Str(<<"${7*7}">>) >>) } }

-----------------------------------------------------------------------------
(* The Express chain: one action per middleware                            *)

\* Stage `name` is the next to run; it ends with `result` and leaves the
\* request as `newReq`.  A stage that calls next() hands over to the next
\* stage (or to the handler); one that does not ends the request.
\* a stage that lets the requests after the first pass the SQL check
StageRemembering(name, result, newReq) ==
    LET decided == IF nreq > 1 /\ name = "sqlInjectionProtection" THEN CallNext ELSE result
    IN
    /\ pc \in 1..Len(profile)
    /\ profile[pc] = name
    /\ trace' = Append(trace, name)
    /\ req' = newReq
    /\ resp' = IF decided.resp # NoResp /\ responses = 0 THEN decided.resp ELSE resp
    /\ responses' = IF decided.resp # NoResp THEN responses + 1 ELSE responses
    /\ pc' = IF decided.next THEN pc + 1 ELSE -1
    /\ UNCHANGED <<scorer, kanban, NODE_ENV, profile, orig, handlerCalls, received, nreq, atArrival,
                   flight>>

Stage(name, result, newReq) ==
    /\ pc \in 1..Len(profile)
    /\ profile[pc] = name
    /\ trace' = Append(trace, name)
    /\ req' = newReq
    /\ resp' = IF result.resp # NoResp /\ responses = 0 THEN result.resp ELSE resp
    /\ responses' = IF result.resp # NoResp THEN responses + 1 ELSE responses
    /\ pc' = IF result.next THEN pc + 1 ELSE -1
    /\ UNCHANGED <<scorer, kanban, NODE_ENV, profile, orig, handlerCalls, received, nreq, atArrival,
                   flight>>

\* helmet() sets response headers and calls next()
StepSecurityHeaders ==
    /\ Stage("securityHeaders", CallNext, req)
    /\ UNCHANGED <<hits, age, authHits>>

\* a store that keeps one counter for all clients
StoreIncrementShared(r, env, h, a) ==
    IF skip(r, env) THEN [hits |-> h, age |-> a]
    ELSE [hits |-> [k \in DOMAIN h |-> HitsAfter(h, a, r.ip)],
          age |-> [k \in DOMAIN a |-> IF h[r.ip] = 0 \/ Expired(h, a, r.ip) THEN 0 ELSE a[k]]]

\* the store after the increment for request r
StoreIncrement(r, env, h, a) ==
    IF skip(r, env) THEN [hits |-> h, age |-> a]
    ELSE [hits |-> [h EXCEPT ![r.ip] = HitsAfter(h, a, r.ip)],
          age |-> [a EXCEPT ![r.ip] = IF h[r.ip] = 0 \/ Expired(h, a, r.ip) THEN 0 ELSE @]]

StepRateLimiter ==
    /\ Stage("rateLimiter", rateLimiter(req, NODE_ENV, hits, age), req)
    /\ hits' = StoreIncrement(req, NODE_ENV, hits, age).hits
    /\ age' = StoreIncrement(req, NODE_ENV, hits, age).age
    /\ UNCHANGED authHits

StepDosProtection ==
    /\ Stage("dosProtection", dosProtection(req), req)
    /\ UNCHANGED <<hits, age, authHits>>

StepHeaderFloodProtection ==
    /\ Stage("headerFloodProtection", headerFloodProtection(req), req)
    /\ UNCHANGED <<hits, age, authHits>>

StepCookieParsingProtection ==
    /\ Stage("cookieParsingProtection", cookieParsingProtection(req), req)
    /\ UNCHANGED <<hits, age, authHits>>

\* redirectProtection attaches req.validateRedirect and calls next()
StepRedirectProtection ==
    /\ Stage("redirectProtection", CallNext, [req EXCEPT !.validateRedirect = TRUE])
    /\ UNCHANGED <<hits, age, authHits>>

StepXssProtection ==
    /\ Stage("xssProtection", xssProtection(req), xssSanitized(req))
    /\ UNCHANGED <<hits, age, authHits>>

StepSqlInjectionProtection ==
    /\ Stage("sqlInjectionProtection", sqlInjectionProtection(req), req)
    /\ UNCHANGED <<hits, age, authHits>>

StepPathTraversalProtection ==
    /\ Stage("pathTraversalProtection", pathTraversalProtection(req), req)
    /\ UNCHANGED <<hits, age, authHits>>

StepRedosProtection ==
    /\ Stage("redosProtection", redosProtection(req), req)
    /\ UNCHANGED <<hits, age, authHits>>

StepDomClobberingProtection ==
    /\ Stage("domClobberingProtection", domClobberingProtection(req), req)
    /\ UNCHANGED <<hits, age, authHits>>

StepTemplateInjectionProtection ==
    /\ Stage("templateInjectionProtection", templateInjectionProtection(req), req)
    /\ UNCHANGED <<hits, age, authHits>>

StepCssProtection ==
    /\ Stage("cssProtection", cssProtection(req), req)
    /\ UNCHANGED <<hits, age, authHits>>

\* the route handler of the application: res.json({received: req.body})
Handler ==
    /\ pc = Len(profile) + 1
    /\ handlerCalls' = handlerCalls + 1
    /\ received' = req.body
    /\ resp' = IF responses = 0 THEN [status |-> 200, code |-> "", error |-> "", detail |-> NoDetail] ELSE resp
    /\ responses' = responses + 1
    /\ pc' = -1
    /\ UNCHANGED <<scorer, kanban, NODE_ENV, profile, hits, age, req, orig, trace, nreq, atArrival,
                   authHits, flight>>

\* a request of R arrives while none is in flight
Arrive(R) ==
    /\ pc = 0
    /\ \E r \in R :
         /\ req' = r
         /\ orig' = r
         /\ hits[r.ip] < RateMax(NODE_ENV) + MaxOver \/ Expired(hits, age, r.ip)
    /\ pc' = 1
    /\ resp' = NoResp
    /\ responses' = 0
    /\ handlerCalls' = 0
    /\ received' = Undef
    /\ trace' = <<>>
    /\ nreq' = Min(nreq + 1, MaxRequests)
    /\ atArrival' = [hits |-> hits, age |-> age]
    /\ UNCHANGED <<scorer, kanban, NODE_ENV, profile, hits, age, authHits, flight>>

\* the request that ended is discarded
Discard ==
    /\ pc = -1
    /\ pc' = 0
    /\ req' = BaseReq
    /\ orig' = BaseReq
    /\ resp' = NoResp
    /\ responses' = 0
    /\ handlerCalls' = 0
    /\ received' = Undef
    /\ trace' = <<>>
    /\ atArrival' = [hits |-> hits, age |-> age]
    /\ UNCHANGED <<scorer, kanban, NODE_ENV, profile, hits, age, nreq, authHits, flight>>

\* half a window passes between two requests
Tick ==
    /\ pc = 0
    /\ \E k \in IPs : hits[k] > 0 /\ age[k] < windowMs
    /\ age' = [k \in IPs |->
                 IF hits[k] > 0 THEN Min(age[k] + windowMs \div 2, windowMs) ELSE age[k]]
    /\ atArrival' = [hits |-> hits, age |-> age']
    /\ UNCHANGED <<scorer, kanban, NODE_ENV, profile, hits, req, orig, pc, resp, responses,
                   handlerCalls, received, trace, nreq, authHits, flight>>

\* the state before the first request, the store apart
Start(envs, profiles) ==
    /\ NODE_ENV \in envs
    /\ profile \in profiles
    /\ age = [k \in IPs |-> 0]
    /\ req = BaseReq
    /\ orig = BaseReq
    /\ pc = 0
    /\ resp = NoResp
    /\ responses = 0
    /\ handlerCalls = 0
    /\ received = Undef
    /\ trace = <<>>
    /\ nreq = 0
    /\ authHits = [k \in IPs |-> 0]
    /\ flight = [i \in 1..MaxConcurrent |-> NotSent]
    /\ kanban = KanbanIdle
    /\ scorer = ScorerIdle

-----------------------------------------------------------------------------
(* Spec: requests through applySecurity or enhancedSecurity.  The clients  *)
(* have either sent nothing yet or are one request short of the budget.    *)

Init ==
    /\ Start({"production", "development", "test"}, {applySecurity, enhancedSecurity})
    /\ \E fresh \in BOOLEAN :
         hits = [k \in IPs |-> IF fresh THEN 0 ELSE RateMax(NODE_ENV) - 1]
    /\ atArrival = [hits |-> hits, age |-> age]

ArrivePipe ==
    /\ nreq < MaxRequests
    /\ Arrive(PipeRequests)

Next ==
    \/ ArrivePipe
    \/ Discard
    \/ Tick
    \/ StepSecurityHeaders
    \/ StepRateLimiter
    \/ StepDosProtection
    \/ StepHeaderFloodProtection
    \/ StepCookieParsingProtection
    \/ StepRedirectProtection
    \/ StepXssProtection
    \/ StepSqlInjectionProtection
    \/ StepPathTraversalProtection
    \/ StepRedosProtection
    \/ StepDomClobberingProtection
    \/ StepTemplateInjectionProtection
    \/ StepCssProtection
    \/ Handler

Spec == Init /\ [][Next]_vars

-----------------------------------------------------------------------------
(* SpecDos: app.use(dosProtection) alone, on nested and wide bodies        *)

InitDos ==
    /\ Start({"production"}, { <<"dosProtection">> })
    /\ hits = [k \in IPs |-> 0]
    /\ atArrival = [hits |-> hits, age |-> age]

ArriveDos == Arrive(DosRequests)

NextDos == ArriveDos \/ StepDosProtection \/ Handler \/ Discard

SpecDos == InitDos /\ [][NextDos]_vars

-----------------------------------------------------------------------------
(* SpecHeaders: headerFloodProtection and cookieParsingProtection, alone   *)
(* and in the order of enhancedSecurity, on GET requests                   *)

HeaderCounts == { 1, 8, 50, 99, 100, 101, 150 }

HeaderLengths == { 64, 8192, 8193 }

RECURSIVE CookiesUpTo(_)
CookiesUpTo(n) ==
    IF n = 0 THEN { <<>> }
    ELSE LET shorter == CookiesUpTo(n - 1)
         IN  shorter \cup { Append(h, l) : h \in shorter, l \in CookieLexemes }

\* the generated cookie headers, and headers of two and three entries
CookieHeaders ==
    CookiesUpTo(MaxCookieLexemes)
    \cup { <<"session=abc123", ";", " theme=dark">>,
           <<"session=\"", ";", " document.cookie=\"admin=true">>,
           <<"session=abc123", ";", "<big=x..x>">>,
           <<"<fit=x..x>", ";", " theme=dark">>,
           <<"<big=x..x>", ";", "user=../../../etc/passwd">>,
           <<"<fit=x..x>", ";", "<fit=x..x>", ";", " theme=dark">> }

\* request(app).get('/test'): no body, no content-length
GetReq == [BaseReq EXCEPT !.contentLength = -1, !.body = EmptyObject]

HeaderRequests ==
    { [GetReq EXCEPT !.headers = [count |-> c, longest |-> l], !.cookie = k] :
        c \in HeaderCounts, l \in HeaderLengths,
        k \in { NoCookie, Cookie(<<"session=abc123">>), Cookie(<<"<huge=x..x>">>),
                Cookie(<<"user=../../../etc/passwd">>) } }
    \cup { [GetReq EXCEPT !.cookie = Cookie(h)] : h \in CookieHeaders }

InitHeaders ==
    /\ Start({"production"},
             { <<"headerFloodProtection">>, <<"cookieParsingProtection">>,
               <<"headerFloodProtection", "cookieParsingProtection">> })
    /\ hits = [k \in IPs |-> 0]
    /\ atArrival = [hits |-> hits, age |-> age]

ArriveHeaders == Arrive(HeaderRequests)

NextHeaders ==
    \/ ArriveHeaders
    \/ StepHeaderFloodProtection
    \/ StepCookieParsingProtection
    \/ Handler
    \/ Discard

SpecHeaders == InitHeaders /\ [][NextHeaders]_vars

-----------------------------------------------------------------------------
(* SpecMatch: sqlInjectionProtection and pathTraversalProtection, each     *)
(* alone, on requests that match in the body, the query, the path and the  *)
(* file name                                                               *)

MatchBodies ==
    { Undef, ValidBody, SqlExampleBody,
      Obj(<< <<"id">> >>, << Str(<<"1 OR 1=1">>) >>),
      Arr(<< Str(<<"ok">>), Obj(<< <<"q">> >>, << Str(<<"admin@test.com' OR 1=1 --">>) >>) >>),
      Obj(<< <<"file">> >>, << Str(<<"../../../etc/passwd">>) >>),
      Obj(<< <<"name">>, <<"data">> >>,
          << Str(<<"CON">>), Arr(<< Num, Str(<<"javascript">>) >>) >>),
      Obj(<< <<"email">>, <<"file">> >>,
          << Str(<<"admin@test.com' OR 1=1 --">>), Str(<<"../../../etc/passwd">>) >>) }

MatchQueries ==
    { EmptyObject,
      Obj(<< <<"q">> >>, << Str(<<"ok">>) >>),
      Obj(<< <<"q">> >>, << Str(<<"admin@test.com' OR 1=1 --">>) >>),
      Obj(<< <<"q">>, <<"file">> >>,
          << Arr(<< Str(<<"ok">>), Str(<<"1 OR 1=1">>) >>),
             Str(<<"../../../etc/passwd">>) >>) }

MatchPaths == { <<"/test">>, <<"/test", "../../../etc/passwd">> }

MatchFiles ==
    { NoFile,
      [present |-> TRUE, originalname |-> <<"ok">>],
      [present |-> TRUE, originalname |-> <<"CON">>],
      [present |-> TRUE, originalname |-> <<"../../../etc/passwd">>] }

MatchRequests ==
    { [BaseReq EXCEPT !.body = b, !.query = q, !.path = p, !.file = f] :
        b \in MatchBodies, q \in MatchQueries, p \in MatchPaths, f \in MatchFiles }

InitMatch ==
    /\ Start({"production"},
             { <<"sqlInjectionProtection">>, <<"pathTraversalProtection">> })
    /\ hits = [k \in IPs |-> 0]
    /\ atArrival = [hits |-> hits, age |-> age]

ArriveMatch == Arrive(MatchRequests)

NextMatch ==
    \/ ArriveMatch
    \/ StepSqlInjectionProtection
    \/ StepPathTraversalProtection
    \/ Handler
    \/ Discard

SpecMatch == InitMatch /\ [][NextMatch]_vars

-----------------------------------------------------------------------------
(* SpecXss: app.use(xssProtection) alone, on generated bodies              *)

InitXss ==
    /\ Start({"production"}, { <<"xssProtection">> })
    /\ hits = [k \in IPs |-> 0]
    /\ atArrival = [hits |-> hits, age |-> age]

ArriveXss == Arrive(XssRequests)

NextXss == ArriveXss \/ StepXssProtection \/ Handler \/ Discard

SpecXss == InitXss /\ [][NextXss]_vars

-----------------------------------------------------------------------------
(* SpecRate: app.use(rateLimiter) alone, every client starting from zero   *)

InitRate ==
    /\ Start({"production", "development"}, { <<"rateLimiter">> })
    /\ hits = [k \in IPs |-> 0]
    /\ atArrival = [hits |-> hits, age |-> age]

ArriveRate == Arrive(RateRequests)

NextRate == ArriveRate \/ Tick \/ StepRateLimiter \/ Handler \/ Discard

SpecRate == InitRate /\ [][NextRate]_vars

-----------------------------------------------------------------------------
(* SpecAuth: a route behind rateLimiter and authRateLimiter, each with a   *)
(* store of its own; the clients are two requests short of the general     *)
(* budget and have not tried to authenticate in this window.               *)

StepAuthRateLimiter ==
    /\ Stage("authRateLimiter", authRateLimiter(req, authHits), req)
    /\ authHits' = [authHits EXCEPT ![req.ip] = @ + 1]
    /\ UNCHANGED <<hits, age>>

\* the handler of the route answers 200 or 401; skipSuccessfulRequests: when
\* the response finishes with a status below 400 the request is taken off the
\* count of authRateLimiter
AuthHandler ==
    /\ pc = Len(profile) + 1
    /\ handlerCalls' = handlerCalls + 1
    /\ received' = req.body
    /\ \E status \in {200, 401} :
         /\ resp' = IF responses = 0
                    THEN [status |-> status, code |-> "", error |-> "", detail |-> NoDetail]
                    ELSE resp
         /\ authHits' = IF status < 400
                        THEN [authHits EXCEPT ![req.ip] = Max(@ - 1, 0)]
                        ELSE authHits
    /\ responses' = responses + 1
    /\ pc' = -1
    /\ UNCHANGED <<scorer, kanban, NODE_ENV, profile, hits, age, req, orig, trace, nreq, atArrival,
                   flight>>

InitAuth ==
    /\ Start({"production", "development"}, { <<"rateLimiter", "authRateLimiter">> })
    /\ hits = [k \in IPs |-> RateMax(NODE_ENV) - 2]
    /\ atArrival = [hits |-> hits, age |-> age]

ArriveAuth == Arrive({ r \in RateRequests : authHits[r.ip] < authMax + MaxOver })

NextAuth ==
    ArriveAuth \/ StepRateLimiter \/ StepAuthRateLimiter \/ AuthHandler \/ Discard

SpecAuth == InitAuth /\ [][NextAuth]_vars

-----------------------------------------------------------------------------
(* SpecConc: requests that are inside rateLimiter at the same time.  The   *)
(* middleware awaits skip, the key and store.increment(key), so requests   *)
(* interleave between these steps; the increment of the memory store runs  *)
(* to completion on the event loop and hands back the new totalHits.       *)

\* request i enters the middleware
ConcArrive(i) ==
    /\ flight[i].phase = "idle"
    /\ \A j \in 1..(i - 1) : flight[j].phase # "idle"
    /\ \E k \in IPs :
         flight' = [flight EXCEPT ![i] = [phase |-> "arrived", ip |-> k, totalHits |-> 0]]
    /\ UNCHANGED <<scorer, kanban, NODE_ENV, profile, hits, age, req, orig, pc, resp, responses,
                   handlerCalls, received, trace, nreq, atArrival, authHits>>

\* an increment whose write is lost to a request that counted just before:
\* both are handed the same totalHits
ConcIncrementRacy(i) ==
    /\ flight[i].phase = "arrived"
    /\ LET r == [BaseReq EXCEPT !.ip = flight[i].ip]
           after == StoreIncrement(r, NODE_ENV, hits, age)
       IN  \/ /\ skip(r, NODE_ENV)
              /\ flight' = [flight EXCEPT ![i].phase = "passed"]
              /\ UNCHANGED <<hits, age>>
           \/ /\ ~skip(r, NODE_ENV)
              /\ hits' = after.hits
              /\ age' = after.age
              /\ flight' = [flight EXCEPT ![i].phase = "counted",
                                          ![i].totalHits = after.hits[r.ip]]
           \/ /\ ~skip(r, NODE_ENV)
              /\ \E j \in 1..MaxConcurrent :
                   /\ flight[j].phase = "counted"
                   /\ flight[j].ip = r.ip
                   /\ flight[j].totalHits = hits[r.ip]
              /\ flight' = [flight EXCEPT ![i].phase = "counted",
                                          ![i].totalHits = hits[r.ip]]
              /\ UNCHANGED <<hits, age>>
    /\ UNCHANGED <<scorer, kanban, NODE_ENV, profile, req, orig, pc, resp, responses,
                   handlerCalls, received, trace, nreq, atArrival, authHits>>

\* skip, then store.increment(key): the store counts request i and hands it
\* the new totalHits of its client
ConcIncrement(i) ==
    /\ flight[i].phase = "arrived"
    /\ LET r == [BaseReq EXCEPT !.ip = flight[i].ip]
           after == StoreIncrement(r, NODE_ENV, hits, age)
       IN  IF skip(r, NODE_ENV)
           THEN /\ flight' = [flight EXCEPT ![i].phase = "passed"]
                /\ UNCHANGED <<hits, age>>
           ELSE /\ hits' = after.hits
                /\ age' = after.age
                /\ flight' = [flight EXCEPT ![i].phase = "counted",
                                            ![i].totalHits = after.hits[r.ip]]
    /\ UNCHANGED <<scorer, kanban, NODE_ENV, profile, req, orig, pc, resp, responses,
                   handlerCalls, received, trace, nreq, atArrival, authHits>>

\* totalHits > max: the 429 response; otherwise next()
ConcDecide(i) ==
    /\ flight[i].phase = "counted"
    /\ flight' = [flight EXCEPT ![i].phase =
                    IF flight[i].totalHits > RateMax(NODE_ENV) THEN "rejected" ELSE "passed"]
    /\ UNCHANGED <<scorer, kanban, NODE_ENV, profile, hits, age, req, orig, pc, resp, responses,
                   handlerCalls, received, trace, nreq, atArrival, authHits>>

\* the clients have not sent anything in their window, or are at or near the
\* end of their budget
InitConc ==
    /\ Start({"production", "development"}, { <<"rateLimiter">> })
    /\ \E left \in 0..MaxConcurrent :
         hits = [k \in IPs |-> RateMax(NODE_ENV) - left]
    /\ atArrival = [hits |-> hits, age |-> age]

NextConc ==
    \E i \in 1..MaxConcurrent : ConcArrive(i) \/ ConcIncrement(i) \/ ConcDecide(i)

SpecConc == InitConc /\ [][NextConc]_vars

-----------------------------------------------------------------------------
(* The kanban service and its controllers, one action per stretch of code  *)
(* between two awaits                                                      *)

\* the candidate ids and stage names the service is called with
CandidateIds == { NaN, Number(0 - 1), Number(0), Number(1), Number(2), Number(9) }

StageNames ==
    { Undef, Str(<<>>), Str(<<" ">>), Str(<<"Technical Interview">>),
      Str(<<" ", "Technical Interview", " ">>), Str(<<"Initial Screening">>),
      Str(<<"NonExistent Stage">>) }

\* req.body.stage: a stage name, null or a number
StageValues == StageNames \cup { Null, Num }

IdChars == { "0", "1", "2", "9", "-", " ", "a" }

RECURSIVE IdsUpTo(_)
IdsUpTo(n) ==
    IF n = 0 THEN { <<>> }
    ELSE LET shorter == IdsUpTo(n - 1)
         IN  shorter \cup { Append(s, c) : s \in shorter, c \in IdChars }

\* req.params.id: a route segment, so not the empty string
IdParams == IdsUpTo(MaxIdChars) \ { <<>> }

\* the call that ended is forgotten; the rows stay as they are
Fresh == [KanbanIdle EXCEPT !.applications = kanban.applications,
                            !.before = kanban.applications]

\* a test calls updateCandidateStage
ServiceCall ==
    /\ kanban.at = "idle"
    /\ \E candidateId \in CandidateIds, newStage \in StageNames :
         kanban' = updateCandidateStage(Fresh, candidateId, newStage)
    /\ UNCHANGED <<scorer, pipelineVars>>

\* a request reaches GET /positions/:id/candidates or PUT /candidates/:id/stage
KanbanRequest ==
    /\ kanban.at = "idle"
    /\ \/ \E id \in IdParams :
            kanban' = [Fresh EXCEPT !.at = "controller", !.route = "GET", !.id = id]
       \/ \E id \in IdParams, stage \in StageValues :
            kanban' = [Fresh EXCEPT !.at = "controller", !.route = "PUT", !.id = id,
                                    !.stage = stage]
    /\ UNCHANGED <<scorer, pipelineVars>>

GetPositionCandidatesController ==
    /\ kanban.at = "controller"
    /\ kanban.route = "GET"
    /\ kanban' = getPositionCandidatesController(kanban)
    /\ UNCHANGED <<scorer, pipelineVars>>

UpdateCandidateStageController ==
    /\ kanban.at = "controller"
    /\ kanban.route = "PUT"
    /\ kanban' = updateCandidateStageController(kanban)
    /\ UNCHANGED <<scorer, pipelineVars>>

\* the database answers findFirst, or the query fails
FindFirstSettles ==
    /\ kanban.at = "findFirst"
    /\ \E failed \in BOOLEAN : kanban' = afterFindFirst(kanban, failed)
    /\ UNCHANGED <<scorer, pipelineVars>>

UpdateManySettles ==
    /\ kanban.at = "updateMany"
    /\ \E failed \in BOOLEAN : kanban' = afterUpdateMany(kanban, failed)
    /\ UNCHANGED <<scorer, pipelineVars>>

FindManySettles ==
    /\ kanban.at = "findMany"
    /\ \E failed \in BOOLEAN : kanban' = afterFindMany(kanban, failed)
    /\ UNCHANGED <<scorer, pipelineVars>>

\* the controller resumes after its await
AfterService ==
    /\ kanban.at = "settled"
    /\ kanban.route # ""
    /\ kanban' = afterService(kanban)
    /\ UNCHANGED <<scorer, pipelineVars>>

\* the caller has seen the outcome
KanbanDiscard ==
    /\ \/ kanban.at = "done"
       \/ kanban.at = "settled" /\ kanban.route = ""
    /\ kanban' = Fresh
    /\ UNCHANGED <<scorer, pipelineVars>>

InitKanban ==
    /\ Start({"production"}, {applySecurity})
    /\ hits = [k \in IPs |-> 0]
    /\ atArrival = [hits |-> hits, age |-> age]

-----------------------------------------------------------------------------
(* SpecService: updateCandidateStage called as the unit tests call it      *)

NextService == ServiceCall \/ FindFirstSettles \/ UpdateManySettles \/ KanbanDiscard

SpecService == InitKanban /\ [][NextService]_vars

-----------------------------------------------------------------------------
(* SpecKanban: requests to the two kanban routes                           *)

NextKanban ==
    \/ KanbanRequest
    \/ GetPositionCandidatesController
    \/ UpdateCandidateStageController
    \/ FindFirstSettles
    \/ UpdateManySettles
    \/ FindManySettles
    \/ AfterService
    \/ KanbanDiscard

SpecKanban == InitKanban /\ [][NextKanban]_vars

-----------------------------------------------------------------------------
(* SpecScorer: calculateJsonComplexity applied to a value at a depth, and  *)
(* (below) followed call by call                                           *)

\* the values without a nested value
ScorerLeaves == { Undef, Null, Num, Str(<<"deep">>), EmptyObject, Arr(<<>>) }

\* arrays and objects of one or two of them
ScorerFlat ==
    { Arr(<<a>>) : a \in ScorerLeaves }
        \cup { Obj(<< <<"name">>, <<"data">> >>, <<a, b>>) :
                  a \in { Num, EmptyObject }, b \in ScorerLeaves }
        \cup { PadObj(<< <<"data">> >>, <<a>>, 3) : a \in { Num, Arr(<<>>) } }

\* a value with n levels of arrays and objects around it
RECURSIVE Wrap(_, _)
Wrap(n, v) ==
    IF n = 0 THEN v
    ELSE Wrap(n - 1, IF n % 2 = 0 THEN Arr(<<Num, v>>)
                     ELSE Obj(<< <<"nested">>, <<"name">> >>, <<v, Str(<<"deep">>)>>))

ScorerValues ==
    ScorerLeaves \cup ScorerFlat
        \cup { Wrap(n, v) : n \in 1..MaxWrap, v \in { Num, EmptyObject, Arr(<<Num, EmptyObject>>) } }

\* the depths the function is entered at: those of a body, and MaxOverDepth
\* beyond the circuit breaker
StartDepths == 0..(50 + MaxOverDepth)

Measure ==
    /\ scorer.at = "idle"
    /\ \E v \in ScorerValues, c \in StartDepths :
         scorer' = [scorer EXCEPT
                      !.at = "measured", !.value = v, !.start = c,
                      !.result = calculateJsonComplexity(v, c),
                      !.inArray = calculateJsonComplexity(Arr(<<v>>), c),
                      !.inObject = calculateJsonComplexity(Obj(<< <<"nested">> >>, <<v>>), c)]
    /\ UNCHANGED <<kanban, pipelineVars>>

ScorerDiscard ==
    /\ scorer.at \in {"measured", "returned"}
    /\ scorer' = ScorerIdle
    /\ UNCHANGED <<kanban, pipelineVars>>

-----------------------------------------------------------------------------
(* SpecWalk: calculateJsonComplexity call by call, on values that refer to *)
(* themselves and on values nested deeper than the circuit breaker         *)

HeapValue(k, refs) == [k |-> k, refs |-> refs]

\* obj = {}; obj.self = obj
SelfReference == <<HeapValue("obj", <<1>>)>>

\* a = {next: [1, a]}
TwoCycle ==
    <<HeapValue("obj", <<2>>), HeapValue("arr", <<3, 1>>), HeapValue("num", <<>>)>>

\* createNestedObject(n): n objects around a string
Chain(n) ==
    [a \in 1..(n + 1) |->
        IF a <= n THEN HeapValue("obj", <<a + 1>>) ELSE HeapValue("str", <<>>)]

\* {id: 1, tags: [], owner: {id: 1, tags: []}}, the array shared
SmallTree ==
    <<HeapValue("obj", <<2, 3, 4>>), HeapValue("num", <<>>), HeapValue("arr", <<>>),
      HeapValue("obj", <<2, 3>>)>>

Heaps ==
    { SelfReference, TwoCycle, SmallTree, <<HeapValue("num", <<>>)>> }
        \cup { Chain(n) : n \in { 1, 49, 50, 51, 52, 50 + MaxOverDepth + 1 } }

\* calculateJsonComplexity(req.body) is called
ScorerCall ==
    /\ scorer.at = "idle"
    /\ \E heap \in Heaps :
         scorer' = [scorer EXCEPT !.at = "running", !.heap = heap,
                                  !.stack = <<Frame(1, 0)>>]
    /\ UNCHANGED <<kanban, pipelineVars>>

\* the call on top of the stack is at its entry
EnterComplexity ==
    /\ scorer.at = "running"
    /\ scorer.stack[Len(scorer.stack)].i = 0
    /\ scorer' = enterComplexity(scorer)
    /\ UNCHANGED <<kanban, pipelineVars>>

\* the call on top of the stack is in its loop
StepComplexity ==
    /\ scorer.at = "running"
    /\ scorer.stack[Len(scorer.stack)].i > 0
    /\ scorer' = stepComplexity(scorer)
    /\ UNCHANGED <<kanban, pipelineVars>>

\* the function in one evaluation, and call by call
NextScorer ==
    Measure \/ ScorerCall \/ EnterComplexity \/ StepComplexity \/ ScorerDiscard

SpecScorer == InitKanban /\ [][NextScorer]_vars

NextWalk == ScorerCall \/ EnterComplexity \/ StepComplexity \/ ScorerDiscard

\* the function is synchronous: once called it runs until it returns
SpecWalk ==
    /\ InitKanban
    /\ [][NextWalk]_vars
    /\ WF_vars(EnterComplexity \/ StepComplexity)

-----------------------------------------------------------------------------
(* Properties                                                              *)

\* the request has ended
Ended == pc = -1

\* the codes each stage can answer with
StageCodes(name) ==
    CASE name = "rateLimiter" -> { "RATE_LIMIT_EXCEEDED" }
      [] name = "dosProtection" ->
            { "PAYLOAD_TOO_LARGE", "EXCESSIVE_NESTING", "EXCESSIVE_FIELDS" }
      [] name = "headerFloodProtection" -> { "HEADER_FLOOD_DETECTED", "HEADER_TOO_LONG" }
      [] name = "cookieParsingProtection" -> { "MALICIOUS_COOKIE", "COOKIE_TOO_LONG" }
      [] name = "sqlInjectionProtection" -> { "SUSPICIOUS_INPUT", "SUSPICIOUS_QUERY" }
      [] name = "pathTraversalProtection" ->
            { "INVALID_PATH", "PATH_TRAVERSAL_BLOCKED", "INVALID_FILENAME" }
      [] name = "redosProtection" -> { "REDOS_PATTERN" }
      [] name = "domClobberingProtection" -> { "DOM_CLOBBERING_BLOCKED" }
      [] name = "templateInjectionProtection" -> { "TEMPLATE_INJECTION" }
      [] name = "cssProtection" -> { "MALICIOUS_CSS" }
      [] OTHER -> {}

\* the request was rejected by the last stage that ran, and by it alone
RejectedOutcome ==
    /\ responses = 1
    /\ handlerCalls = 0
    /\ resp.status \in {400, 413, 429}
    /\ trace # <<>>
    /\ trace = SubSeq(profile, 1, Len(trace))
    /\ resp.code \in StageCodes(trace[Len(trace)])

\* every stage ran, in order, and the handler answered
HandledOutcome ==
    /\ responses = 1
    /\ handlerCalls = 1
    /\ resp.status = 200
    /\ trace = profile

\* C1: a request run through applySecurity or enhancedSecurity ends in exactly
\* one of two ways: the first stage that rejects writes the one response, no
\* later stage runs and the handler is never invoked; or every stage passes
\* and the handler is invoked exactly once.  While the request is in flight
\* nothing has been written and the stages run so far are the leading ones.
C1_ExactlyOneOutcome ==
    /\ pc >= 1 =>
         /\ responses = 0
         /\ handlerCalls = 0
         /\ trace = SubSeq(profile, 1, pc - 1)
    /\ Ended =>
         /\ RejectedOutcome \/ HandledOutcome
         /\ ~(RejectedOutcome /\ HandledOutcome)

C1_Witness ==
    /\ Ended
    /\ profile = enhancedSecurity
    /\ RejectedOutcome
    /\ resp.code = "SUSPICIOUS_INPUT"
    /\ Len(trace) < Len(profile)

\* the request as the stage at position i of the profile receives it
PresentedTo(i) ==
    IF \E j \in 1..(i - 1) : profile[j] = "xssProtection"
    THEN xssSanitized(orig)
    ELSE orig

\* the result of the stage called name on request r, the rate limiter apart
StageResult(name, r) ==
    CASE name = "dosProtection" -> dosProtection(r)
      [] name = "headerFloodProtection" -> headerFloodProtection(r)
      [] name = "cookieParsingProtection" -> cookieParsingProtection(r)
      [] name = "xssProtection" -> xssProtection(r)
      [] name = "sqlInjectionProtection" -> sqlInjectionProtection(r)
      [] name = "pathTraversalProtection" -> pathTraversalProtection(r)
      [] name = "redosProtection" -> redosProtection(r)
      [] name = "domClobberingProtection" -> domClobberingProtection(r)
      [] name = "templateInjectionProtection" -> templateInjectionProtection(r)
      [] name = "cssProtection" -> cssProtection(r)
      [] OTHER -> CallNext

\* the request in flight went over its client's budget
OverBudget ==
    /\ ~skip(orig, NODE_ENV)
    /\ ~Expired(atArrival.hits, atArrival.age, orig.ip)
    /\ atArrival.hits[orig.ip] >= RateMax(NODE_ENV)

\* the response with which the stage at position i answers the request, NoResp
\* when the request does not violate it
AnswerOf(i) ==
    IF profile[i] = "rateLimiter"
    THEN IF OverBudget
         THEN [status |-> 429, code |-> "RATE_LIMIT_EXCEEDED",
               error |-> "Too many requests from this IP, please try again later.",
               detail |-> NoDetail]
         ELSE NoResp
    ELSE StageResult(profile[i], PresentedTo(i)).resp

\* the positions of the stages that the request violates
Violated == { i \in 1..Len(profile) : AnswerOf(i) # NoResp }

Earliest(S) == CHOOSE i \in S : \A j \in S : i <= j

\* a body nested deeper than 20 that holds a SQL-injection string, in a
\* request within the size limit and the budget
DeepSqlRequest ==
    /\ orig.contentLength <= maxSize
    /\ ~OverBudget
    /\ \E d \in 21..MaxNesting :
         orig.body = Nest(d, Str(<<"admin@test.com' OR 1=1 --">>))

\* C2: a request that violates two or more stages is answered by the violated
\* stage that comes earliest in the profile, with that stage's code and no
\* other; a body nested deeper than 20 that holds a SQL-injection string is
\* answered EXCESSIVE_NESTING.
C2_EarliestStageDecides ==
    Ended =>
      /\ Cardinality(Violated) >= 2 =>
           /\ resp = AnswerOf(Earliest(Violated))
           /\ responses = 1
           /\ handlerCalls = 0
      /\ DeepSqlRequest => resp.code = "EXCESSIVE_NESTING"

C2_Witness ==
    /\ Ended
    /\ DeepSqlRequest
    /\ profile = enhancedSecurity
    /\ Cardinality(Violated) >= 2
    /\ resp.code = "EXCESSIVE_NESTING"
    /\ "sqlInjectionProtection" \in { profile[i] : i \in Violated }

\* the value of the own key of an object
Field(obj, key) == obj.kids[CHOOSE i \in 1..Len(obj.keys) : obj.keys[i] = key]

\* the XSS stage is the last stage that ran
XssJustRan == trace # <<>> /\ trace[Len(trace)] = "xssProtection"

\* the request of the XSS tests: the example body and nothing else to object to
XssExampleRequest ==
    /\ orig = [BaseReq EXCEPT !.body = XssExampleBody]
    /\ ~OverBudget

C4_SanitizeIdempotent ==
    /\ pc # 0 =>
         /\ sanitizeObject(sanitizeObject(orig.body)) = sanitizeObject(orig.body)
         /\ sanitizeObject(sanitizeObject(orig.query)) = sanitizeObject(orig.query)
    /\ XssJustRan =>
         /\ sanitizeObject(req.body) = req.body
         /\ sanitizeObject(req.query) = req.query

C4_Witness ==
    /\ XssJustRan
    /\ orig.body.k = "obj"
    /\ \E i \in 1..Len(orig.body.keys) : orig.body.keys[i] = <<"<b>", "name", "</b>">>
    /\ Len(req.body.keys) < Len(orig.body.keys)
    /\ sanitizeObject(req.body) = req.body

\* dosProtection has answered the request in flight, whose declared length is
\* within the limit
DosDecided == trace = <<"dosProtection">> /\ orig.contentLength <= maxSize

RejectedForNesting == resp.status = 400 /\ resp.code = "EXCESSIVE_NESTING"

RejectedForFields == resp.status = 400 /\ resp.code = "EXCESSIVE_FIELDS"

\* C5 as stated: a single-key object nested d levels deep is rejected with 400
\* EXCESSIVE_NESTING for every d > 20 and is not rejected for nesting for
\* every d <= 20.
C5_Original ==
    \A d \in NestingDepths :
        (DosDecided /\ orig.body = createNestedObject(d)) =>
            (RejectedForNesting <=> d > 20)

\* C5: dosProtection measures the outermost object at depth 0, so a single-key
\* object nested d levels deep is rejected with 400 EXCESSIVE_NESTING exactly
\* when d > 21; sent as the data field of {depth: d, data: ...}, as the tests
\* send it, it is rejected exactly when d > 20.
C5_NestingLimit ==
    \A d \in NestingDepths :
        /\ (DosDecided /\ orig.body = createNestedObject(d)) =>
              (RejectedForNesting <=> d > 21)
        /\ (DosDecided /\ orig.body = NestingTest(d)) =>
              (RejectedForNesting <=> d > 20)

C5_Witness ==
    /\ DosDecided
    /\ Ended
    /\ orig.body = createNestedObject(21)
    /\ resp.status = 200
    /\ handlerCalls = 1

\* C6: a flat object with n scalar-valued fields is rejected by dosProtection
\* with 400 EXCESSIVE_FIELDS exactly when n > 5000; exactly 5000 fields pass.
C6_FieldLimit ==
    \A n \in FieldCounts :
        (DosDecided /\ orig.body = createObjectWithFields(n)) =>
            /\ RejectedForFields <=> n > 5000
            /\ n <= 5000 => resp.status \in {0, 200}

C6_Witness ==
    /\ DosDecided
    /\ Ended
    /\ orig.body = createObjectWithFields(5000)
    /\ resp.status = 200
    /\ handlerCalls = 1

\* C7: a body {fieldCount: n, data: <flat object with n fields>} sent through
\* enhancedSecurity is answered 200 for every n <= 5000, n = 5000 included,
\* and 400 EXCESSIVE_FIELDS for n > 5000.
C7_FieldTestAccepted ==
    \A n \in { 1, 4998, 4999, 5000, 5001 } :
        ( /\ Ended
          /\ profile = enhancedSecurity
          /\ orig = [BaseReq EXCEPT !.body = FieldTest(n)]
          /\ ~OverBudget ) =>
            IF n <= 5000 THEN resp.status = 200 ELSE RejectedForFields

\* C8: a body that exceeds both the nesting ceiling (depth > 20) and the field
\* ceiling (fieldCount > 5000) is answered EXCESSIVE_NESTING, never
\* EXCESSIVE_FIELDS.
C8_NestingBeforeFields ==
    ( /\ DosDecided
      /\ IsObjectLike(orig.body)
      /\ calculateJsonComplexity(orig.body, 0).depth > 20
      /\ calculateJsonComplexity(orig.body, 0).fieldCount > 5000 ) =>
        /\ RejectedForNesting
        /\ ~RejectedForFields
        /\ responses = 1

C8_Witness ==
    /\ DosDecided
    /\ Ended
    /\ orig.body = PadObj(<< <<"nested">> >>, << createNestedObject(22) >>, 5001)
    /\ RejectedForNesting
    /\ handlerCalls = 0

\* the rate limiter has counted the request in flight
RateCounted == trace = <<"rateLimiter">> /\ ~skip(orig, NODE_ENV)

RejectedForRate == resp.status = 429 /\ resp.code = "RATE_LIMIT_EXCEEDED"

\* C9: with a budget of 100 requests per 15-minute window, the first 100
\* requests of one caller identity in a window are passed on by the rate
\* limiter, and the 101st and every later one in the same window is answered
\* 429 RATE_LIMIT_EXCEEDED.
C9_BudgetPerWindow ==
    /\ RateMax(NODE_ENV) = 100
    /\ windowMs = 900000
    /\ RateCounted =>
         /\ hits[orig.ip] \in 1..100 =>
              \/ pc = 2 /\ resp = NoResp
              \/ Ended /\ resp.status = 200 /\ handlerCalls = 1
         /\ hits[orig.ip] > 100 => (RejectedForRate /\ handlerCalls = 0 /\ Ended)
         /\ ~Expired(atArrival.hits, atArrival.age, orig.ip) =>
              hits[orig.ip] = atArrival.hits[orig.ip] + 1

C9_Witness ==
    /\ RateCounted
    /\ Ended
    /\ hits[orig.ip] = 101
    /\ atArrival.hits[orig.ip] = 100
    /\ RejectedForRate

\* a second witness of C9: the 100th request of the window is passed on
C9_WitnessLastAdmitted ==
    /\ RateCounted
    /\ Ended
    /\ hits[orig.ip] = 100
    /\ resp.status = 200

\* C10: a caller identity that exhausted its budget is admitted again once its
\* window has elapsed: its counter is reset and the request that follows the
\* window is passed on as the first of a new window.
C10_AdmittedAfterWindow ==
    ( /\ RateCounted
      /\ atArrival.hits[orig.ip] >= RateMax(NODE_ENV)
      /\ atArrival.age[orig.ip] >= windowMs ) =>
        /\ hits[orig.ip] = 1
        /\ age[orig.ip] = 0
        /\ ~RejectedForRate
        /\ Ended => (resp.status = 200 /\ handlerCalls = 1)

C10_Witness ==
    /\ RateCounted
    /\ Ended
    /\ atArrival.hits[orig.ip] > RateMax(NODE_ENV)
    /\ atArrival.age[orig.ip] >= windowMs
    /\ hits[orig.ip] = 1
    /\ resp.status = 200

\* the requests of client key that are in one of the phases
InPhase(key, phases) ==
    { i \in 1..MaxConcurrent : flight[i].ip = key /\ flight[i].phase \in phases }

\* what was left of the budget of client key before the concurrent requests
BudgetLeft(key) == RateMax(NODE_ENV) - atArrival.hits[key]

\* client key is counted by the limiter
Counted(key) == ~skip([BaseReq EXCEPT !.ip = key], NODE_ENV)

\* C11: under any interleaving of concurrent requests of one client inside one
\* window the rate limiter admits exactly min(n, budget) of the n requests: no
\* two requests are handed the same count and no request beyond the budget is
\* admitted.
C11_ConcurrentAdmission ==
    \A key \in IPs :
        Counted(key) =>
          /\ \A i, j \in InPhase(key, {"counted", "passed", "rejected"}) :
                i # j => flight[i].totalHits # flight[j].totalHits
          /\ Cardinality(InPhase(key, {"passed"})) <= BudgetLeft(key)
          /\ hits[key] = atArrival.hits[key]
                         + Cardinality(InPhase(key, {"counted", "passed", "rejected"}))
          /\ InPhase(key, {"arrived", "counted"}) = {} =>
                Cardinality(InPhase(key, {"passed"}))
                  = Min(Cardinality(InPhase(key, {"passed", "rejected"})), BudgetLeft(key))

C11_Witness ==
    \E key \in IPs :
        /\ Counted(key)
        /\ BudgetLeft(key) = 2
        /\ Cardinality(InPhase(key, {"passed"})) = 2
        /\ Cardinality(InPhase(key, {"rejected"})) = 1
        /\ InPhase(key, {"arrived", "counted"}) = {}

\* the stage or handler that runs next for the request in flight
Running ==
    IF pc \in 1..Len(profile) THEN profile[pc]
    ELSE IF pc = Len(profile) + 1 THEN "handler"
    ELSE "none"

\* store h with the counters of every client but key set to v
OthersAt(h, key, v) == [k \in DOMAIN h |-> IF k = key THEN h[k] ELSE v]

\* C12: rate counters are partitioned: a request of client A never changes the
\* count or the verdict of another client B, a request counted by rateLimiter
\* never changes the counters of authRateLimiter, and the other way round.
C12_CountersPartitioned ==
    [][ /\ \A k \in IPs :
             (Running # "none" /\ k # req.ip) =>
                 /\ hits'[k] = hits[k]
                 /\ age'[k] = age[k]
                 /\ authHits'[k] = authHits[k]
        /\ Running = "rateLimiter" =>
             /\ authHits' = authHits
             /\ \A v \in {0, RateMax(NODE_ENV) + 1} :
                  rateLimiter(req, NODE_ENV, OthersAt(hits, req.ip, v), age)
                    = rateLimiter(req, NODE_ENV, hits, age)
        /\ Running \in {"authRateLimiter", "handler"} =>
             /\ hits' = hits
             /\ age' = age
             /\ \A v \in {0, authMax + 1} :
                  authRateLimiter(req, OthersAt(authHits, req.ip, v))
                    = authRateLimiter(req, authHits)
      ]_vars

C12_Witness ==
    /\ Ended
    /\ resp.code = "AUTH_RATE_LIMIT_EXCEEDED"
    /\ authHits[orig.ip] > authMax
    /\ hits[orig.ip] <= RateMax(NODE_ENV)
    /\ \E k \in IPs : k # orig.ip /\ authHits[k] = 0 /\ hits[k] # hits[orig.ip]

\* dosProtection has answered the request in flight
DosRan == trace = <<"dosProtection">>

RejectedForSize == resp.status = 413 /\ resp.code = "PAYLOAD_TOO_LARGE"

\* C13: dosProtection rejects with 413 PAYLOAD_TOO_LARGE exactly when the
\* declared content-length is greater than 5 MiB (5242880); a request without
\* the header, with a declared length of 0 or of exactly 5242880 passes the
\* size check.
C13_PayloadTooLarge ==
    /\ maxSize = 5242880
    /\ DosRan =>
         /\ RejectedForSize <=> orig.contentLength > 5242880
         /\ orig.contentLength \in {-1, 0, 5242880} =>
              (resp.status # 413 /\ resp.code # "PAYLOAD_TOO_LARGE")
         /\ RejectedForSize => (Ended /\ handlerCalls = 0 /\ responses = 1)

C13_Witness ==
    /\ DosRan
    /\ Ended
    /\ orig.contentLength = 5242880
    /\ orig.body = createObjectWithFields(1)
    /\ resp.status = 200
    /\ handlerCalls = 1

\* a second reachable case of C13: one byte over the limit is refused
C13_WitnessOver ==
    /\ DosRan
    /\ orig.contentLength = 5242881
    /\ RejectedForSize

\* headerFloodProtection has answered the request in flight
HeaderFloodRan == trace # <<>> /\ trace[Len(trace)] = "headerFloodProtection"

RejectedForHeaderFlood == resp.status = 400 /\ resp.code = "HEADER_FLOOD_DETECTED"

C14_WitnessAtLimit ==
    /\ Ended
    /\ trace = <<"headerFloodProtection">>
    /\ orig.headers.count = 100
    /\ resp.status = 200
    /\ handlerCalls = 1

\* cookieParsingProtection has answered the request in flight
CookieRan == trace # <<>> /\ trace[Len(trace)] = "cookieParsingProtection"

\* the last stage to run called next() and wrote nothing: what follows it is
\* about to run, or it was the handler and has answered
PassedOn ==
    \/ resp = NoResp /\ responses = 0 /\ pc = Len(trace) + 1
    \/ Ended /\ handlerCalls = 1 /\ responses = 1 /\ resp.status = 200

RejectedWith(code) ==
    /\ resp.status = 400
    /\ resp.code = code
    /\ Ended /\ handlerCalls = 0 /\ responses = 1

\* C15: cookieParsingProtection rejects with MALICIOUS_COOKIE whenever the raw
\* cookie header contains a character with code 0-31 or 127-159 or one of the
\* known-dangerous substrings; it rejects with COOKIE_TOO_LONG whenever some
\* ';'-separated entry is longer than 4096 characters and the header is not
\* malicious in that sense; it passes a request without a cookie header; a
\* cookie that is both too long and dangerous gets MALICIOUS_COOKIE.
C15_CookieVerdicts ==
    CookieRan =>
      LET h == orig.cookie.header
          lens == SplitLens(h, 0)
          malicious ==
              /\ orig.cookie.present
              /\ \E i \in 1..Len(h) :
                   h[i] \in CookieControlLexemes \cup MaliciousCookieLexemes
          tooLong ==
              /\ orig.cookie.present
              /\ \E i \in 1..Len(lens) : lens[i] > 4096
      IN  /\ malicious => RejectedWith("MALICIOUS_COOKIE")
          /\ (tooLong /\ ~malicious) =>
               /\ RejectedWith("COOKIE_TOO_LONG")
               /\ resp.detail = { <<"maxLength", 4096>> }
          /\ ~orig.cookie.present => PassedOn

\* a cookie that is too long and dangerous at once
C15_Witness ==
    /\ CookieRan
    /\ orig.cookie = Cookie(<<"<big=x..x>", ";", "user=../../../etc/passwd">>)
    /\ RejectedWith("MALICIOUS_COOKIE")

\* further reachable cases of C15: a long entry, a control character, no cookie
C15_WitnessTooLong ==
    /\ CookieRan
    /\ orig.cookie = Cookie(<<"session=abc123", ";", "<big=x..x>">>)
    /\ RejectedWith("COOKIE_TOO_LONG")

C15_WitnessControl ==
    /\ CookieRan
    /\ orig.cookie = Cookie(<<"session=abc123", "\t">>)
    /\ RejectedWith("MALICIOUS_COOKIE")
    /\ resp.error = "Invalid characters in cookie header"

C15_WitnessNoCookie ==
    /\ CookieRan
    /\ ~orig.cookie.present
    /\ PassedOn

\* a stage has answered the request in flight with a rejection
Rejected == responses > 0 /\ resp.status >= 400

\* the stage that ran last
LastStage == IF trace = <<>> THEN "" ELSE trace[Len(trace)]

\* C16 as stated: every rejection that a stage of applySecurity or
\* enhancedSecurity emits carries one of the codes of the status/code table
\* (RATE_LIMIT_EXCEEDED, PAYLOAD_TOO_LARGE, EXCESSIVE_NESTING, EXCESSIVE_FIELDS,
\* HEADER_FLOOD_DETECTED, HEADER_TOO_LONG, MALICIOUS_COOKIE, SUSPICIOUS_INPUT,
\* SUSPICIOUS_QUERY, REDOS_PATTERN, DOM_CLOBBERING_BLOCKED, TEMPLATE_INJECTION,
\* PATH_TRAVERSAL_BLOCKED, INVALID_PATH, INVALID_FILENAME, MALICIOUS_CSS).
C16_Original ==
    Rejected =>
      resp.code \in
        { "RATE_LIMIT_EXCEEDED", "PAYLOAD_TOO_LARGE", "EXCESSIVE_NESTING",
          "EXCESSIVE_FIELDS", "HEADER_FLOOD_DETECTED", "HEADER_TOO_LONG",
          "MALICIOUS_COOKIE", "SUSPICIOUS_INPUT", "SUSPICIOUS_QUERY",
          "REDOS_PATTERN", "DOM_CLOBBERING_BLOCKED", "TEMPLATE_INJECTION",
          "PATH_TRAVERSAL_BLOCKED", "INVALID_PATH", "INVALID_FILENAME",
          "MALICIOUS_CSS" }

\* C16: every rejection that a stage of applySecurity or enhancedSecurity
\* emits carries a code of the status/code table or COOKIE_TOO_LONG, which
\* only cookieParsingProtection emits, for a cookie entry of more than 4096
\* characters; the rejection of the authentication rate limiter carries
\* AUTH_RATE_LIMIT_EXCEEDED, which is not in the table either.
C16_CodesOfTheTable ==
    /\ Rejected =>
         /\ resp.code \in
              { "RATE_LIMIT_EXCEEDED", "PAYLOAD_TOO_LARGE", "EXCESSIVE_NESTING",
                "EXCESSIVE_FIELDS", "HEADER_FLOOD_DETECTED", "HEADER_TOO_LONG",
                "MALICIOUS_COOKIE", "SUSPICIOUS_INPUT", "SUSPICIOUS_QUERY",
                "REDOS_PATTERN", "DOM_CLOBBERING_BLOCKED", "TEMPLATE_INJECTION",
                "PATH_TRAVERSAL_BLOCKED", "INVALID_PATH", "INVALID_FILENAME",
                "MALICIOUS_CSS" }
              \cup { "COOKIE_TOO_LONG" }
         /\ resp.code = "COOKIE_TOO_LONG" =>
              /\ LastStage = "cookieParsingProtection"
              /\ HasLongCookie(orig.cookie.header)
    /\ \A k \in IPs :
         LET spent == [i \in IPs |-> IF i = k THEN authMax ELSE 0]
             answer == authRateLimiter([req EXCEPT !.ip = k], spent)
         IN  /\ answer.resp.status = 429
             /\ answer.resp.code = "AUTH_RATE_LIMIT_EXCEEDED"

C16_Witness ==
    /\ Rejected
    /\ profile = enhancedSecurity
    /\ LastStage = "cookieParsingProtection"
    /\ resp.code = "COOKIE_TOO_LONG"
    /\ resp.status = 400

\* C17: every rejection response produced by a stage carries both a string
\* code and a string error message; no stage ends a request with a rejection
\* that lacks either field.  (An absent field is the empty string of the
\* response record.)
C17_CodeAndError ==
    /\ Rejected => (resp.code # "" /\ resp.error # "")
    /\ (Ended /\ handlerCalls = 0) =>
         (Rejected /\ resp.code \in StageCodes(LastStage) /\ resp.error # "")

C17_Witness ==
    /\ Rejected
    /\ Ended
    /\ LastStage = "domClobberingProtection"
    /\ resp.status = 400
    /\ resp.code = "DOM_CLOBBERING_BLOCKED"
    /\ resp.error = "Potential DOM clobbering attack detected"
    /\ resp.detail = NoDetail

\* the request in flight is the base request with a body of its own, sent
\* through enhancedSecurity within its client's budget, and has been answered
AnsweredByEnhanced ==
    /\ Ended
    /\ profile = enhancedSecurity
    /\ orig = [BaseReq EXCEPT !.body = orig.body]
    /\ ~OverBudget

\* C18: every body containing a template-injection payload (a string with
\* double-brace or ${...} delimiters, '{{constructor.constructor("alert(1)")()}}'
\* among them), sent through enhancedSecurity, is rejected with HTTP 400 and
\* code TEMPLATE_INJECTION.
C18_TemplateRejected ==
    (AnsweredByEnhanced /\ checkForTemplateInjection(orig.body)) =>
        (resp.status = 400 /\ resp.code = "TEMPLATE_INJECTION")

\* C19: every body containing a DOM-clobbering payload, the HTML-tag payloads
\* '<div id="__webpack_require__">malicious</div>' and
\* '<form><input name="eval"></form>' and the bare value 'constructor'
\* included, sent through enhancedSecurity, is rejected with HTTP 400 and code
\* DOM_CLOBBERING_BLOCKED or SUSPICIOUS_INPUT.
C19_DomClobberingRejected ==
    (AnsweredByEnhanced /\ orig.body \in domClobbering) =>
        /\ resp.status = 400
        /\ resp.code \in { "DOM_CLOBBERING_BLOCKED", "SUSPICIOUS_INPUT" }
        /\ handlerCalls = 0

\* some string of obj matches the boolean-tautology pattern
\* /(\b(OR|AND)\s+['"]?\d+['"]?\s*=\s*['"]?\d+['"]?)/i, whatever its length
RECURSIVE HasTautology(_)
HasTautology(obj) ==
    CASE obj.k = "str" -> HasLexeme(obj.s, SqlLexemes)
      [] obj.k \in {"arr", "obj"} ->
            \E i \in 1..Len(obj.kids) : HasTautology(obj.kids[i])
      [] OTHER -> FALSE

\* the stage `name` has run on the request in flight
Ran(name) == \E i \in 1..Len(trace) : trace[i] = name

\* C20: every body containing a string value with a boolean tautology
\* (OR/AND <n>=<n>), whatever the string's length, strings shorter than 10
\* characters such as '1 OR 1=1' included, is rejected by the SQL-injection
\* stage of enhancedSecurity with HTTP 400 and code SUSPICIOUS_INPUT.
C20_TautologyRejected ==
    ( /\ AnsweredByEnhanced
      /\ Ran("sqlInjectionProtection")
      /\ HasTautology(orig.body) ) =>
        /\ LastStage = "sqlInjectionProtection"
        /\ resp.status = 400
        /\ resp.code = "SUSPICIOUS_INPUT"

\* some string at any depth of value holds a lexeme of set
RECURSIVE SomeString(_, _)
SomeString(value, set) ==
    CASE value.k = "str" -> HasLexeme(value.s, set)
      [] value.k \in {"arr", "obj"} ->
            \E i \in 1..Len(value.kids) : SomeString(value.kids[i], set)
      [] OTHER -> FALSE

\* C21: sqlInjectionProtection scans the body before the query: it answers
\* 400 SUSPICIOUS_INPUT when some string value of the body matches (a string
\* of ten characters or more with a suspicious pattern), 400 SUSPICIOUS_QUERY
\* only when the body does not match and some string value of the query does,
\* and SUSPICIOUS_INPUT when both match.
C21_BodyBeforeQuery ==
    (Ended /\ trace = <<"sqlInjectionProtection">>) =>
      LET long == { l \in SqlLexemes : LexLen[l] >= 10 }
          bodyMatches == SomeString(orig.body, long)
          queryMatches == SomeString(orig.query, long)
      IN  /\ bodyMatches => RejectedWith("SUSPICIOUS_INPUT")
          /\ (~bodyMatches /\ queryMatches) => RejectedWith("SUSPICIOUS_QUERY")
          /\ resp.code = "SUSPICIOUS_QUERY" => (~bodyMatches /\ queryMatches)
          /\ (~bodyMatches /\ ~queryMatches) => (resp.status = 200 /\ handlerCalls = 1)

\* body and query match at once
C21_Witness ==
    /\ Ended
    /\ trace = <<"sqlInjectionProtection">>
    /\ orig.body = SqlExampleBody
    /\ orig.query = Obj(<< <<"q">> >>, << Str(<<"admin@test.com' OR 1=1 --">>) >>)
    /\ RejectedWith("SUSPICIOUS_INPUT")

\* a second reachable case of C21: the query alone matches
C21_WitnessQuery ==
    /\ Ended
    /\ trace = <<"sqlInjectionProtection">>
    /\ orig.body = ValidBody
    /\ orig.query = Obj(<< <<"q">> >>, << Str(<<"admin@test.com' OR 1=1 --">>) >>)
    /\ RejectedWith("SUSPICIOUS_QUERY")

\* a string with a traversal sequence, or a reserved device name on its own
Traversal(s) ==
    \/ \E i \in 1..Len(s) : s[i] = "../../../etc/passwd"
    \/ s = <<"CON">>

RECURSIVE SomeTraversal(_)
SomeTraversal(value) ==
    CASE value.k = "str" -> Traversal(value.s)
      [] value.k \in {"arr", "obj"} ->
            \E i \in 1..Len(value.kids) : SomeTraversal(value.kids[i])
      [] OTHER -> FALSE

\* C22: pathTraversalProtection checks the request path, then body and query,
\* then the original name of the uploaded file: a traversal pattern in the
\* path yields INVALID_PATH, otherwise one in a string of body or query yields
\* PATH_TRAVERSAL_BLOCKED, otherwise one in the file name yields
\* INVALID_FILENAME; a request matching in several places reports only the
\* first of these codes.
C22_PathThenBodyThenFile ==
    (Ended /\ trace = <<"pathTraversalProtection">>) =>
      LET inPath == Traversal(orig.path)
          inData == SomeTraversal(orig.body) \/ SomeTraversal(orig.query)
          inFile == orig.file.present /\ Traversal(orig.file.originalname)
      IN  /\ inPath => RejectedWith("INVALID_PATH")
          /\ (~inPath /\ inData) => RejectedWith("PATH_TRAVERSAL_BLOCKED")
          /\ (~inPath /\ ~inData /\ inFile) => RejectedWith("INVALID_FILENAME")
          /\ (~inPath /\ ~inData /\ ~inFile) =>
               (resp.status = 200 /\ handlerCalls = 1)

\* the path, the body and the file name match at once
C22_Witness ==
    /\ Ended
    /\ trace = <<"pathTraversalProtection">>
    /\ Traversal(orig.path)
    /\ SomeTraversal(orig.body)
    /\ orig.file.present /\ Traversal(orig.file.originalname)
    /\ RejectedWith("INVALID_PATH")

\* further reachable cases of C22
C22_WitnessData ==
    /\ Ended
    /\ trace = <<"pathTraversalProtection">>
    /\ ~Traversal(orig.path)
    /\ SomeTraversal(orig.query)
    /\ orig.file.present /\ Traversal(orig.file.originalname)
    /\ RejectedWith("PATH_TRAVERSAL_BLOCKED")

C22_WitnessFile ==
    /\ Ended
    /\ trace = <<"pathTraversalProtection">>
    /\ orig.file.originalname = <<"CON">>
    /\ RejectedWith("INVALID_FILENAME")

\* no string and no key of value holds an element or the character '<'
RECURSIVE NoMarkup(_)
NoMarkup(value) ==
    LET plain(s) == \A i \in 1..Len(s) : s[i] \notin TagLexemes \cup {" < "}
    IN  CASE value.k = "str" -> plain(value.s)
          [] value.k = "arr" ->
                \A i \in 1..Len(value.kids) : NoMarkup(value.kids[i])
          [] value.k = "obj" ->
                /\ \A i \in 1..Len(value.keys) : plain(value.keys[i])
                /\ \A i \in 1..Len(value.kids) : NoMarkup(value.kids[i])
          [] OTHER -> TRUE

\* C23: for every request whose body contains no markup, matches no attack
\* pattern and exceeds no limit, enhancedSecurity hands the handler a body
\* equal to the body submitted, and the query is the query submitted.
C23_BodyUnchanged ==
    ( /\ Ended
      /\ profile = enhancedSecurity
      /\ handlerCalls = 1
      /\ NoMarkup(orig.body)
      /\ NoMarkup(orig.query) ) =>
        /\ received = orig.body
        /\ req.query = orig.query

\* the call of updateCandidateStage made by a test has failed
ServiceFailed ==
    /\ kanban.route = ""
    /\ kanban.at = "settled"
    /\ kanban.outcome # "ok"

\* no interview step is named as the trimmed stage of the call
NoSuchStep ==
    /\ ~BlankStage(kanban.newStage)
    /\ \A i \in DOMAIN InterviewSteps : InterviewSteps[i] # Trim(kanban.newStage.s)

\* C24: a call of updateCandidateStage that fails leaves every row of
\* application as it found it; with a candidateId that is not a positive number
\* or a stage name that is empty or blank it throws before any query is issued;
\* when the lookup finds no interview step with the trimmed name it throws
\* 'Invalid stage name' and the update is not issued; and the update is only
\* ever issued after the lookup, with the step the lookup found.
C24_FailedCallChangesNothing ==
    /\ kanban.applications # kanban.before => kanban.outcome = "ok"
    /\ ServiceFailed => kanban.applications = kanban.before
    /\ ServiceFailed /\ (NotPositive(kanban.candidateId) \/ BlankStage(kanban.newStage))
          => kanban.queries = <<>>
    /\ ServiceFailed /\ ~NotPositive(kanban.candidateId) /\ NoSuchStep
                     /\ kanban.outcome # "Failed to update candidate stage"
          => /\ kanban.outcome = "Invalid stage name"
             /\ kanban.queries = <<"findFirst">>
    /\ (\E i \in 1..Len(kanban.queries) : kanban.queries[i] = "updateMany")
          => /\ kanban.queries = <<"findFirst", "updateMany">>
             /\ kanban.step \in DOMAIN InterviewSteps
             /\ InterviewSteps[kanban.step] = Trim(kanban.newStage.s)

\* a call for candidate 1 with a stage no step is named after has thrown
C24_Witness ==
    /\ ServiceFailed
    /\ kanban.candidateId = Number(1)
    /\ kanban.newStage = Str(<<"NonExistent Stage">>)
    /\ kanban.outcome = "Invalid stage name"
    /\ kanban.queries = <<"findFirst">>

\* a call with a blank stage has thrown, and one for a candidate without
\* applications has thrown after the update matched no row
C24_WitnessBlank ==
    /\ ServiceFailed
    /\ kanban.candidateId = Number(1)
    /\ kanban.newStage = Str(<<" ">>)
    /\ kanban.queries = <<>>

C24_WitnessNotFound ==
    /\ ServiceFailed
    /\ kanban.candidateId = Number(9)
    /\ kanban.outcome = "Candidate application not found"
    /\ kanban.queries = <<"findFirst", "updateMany">>

\* the controller of the request has finished
ControllerDone == kanban.route # "" /\ kanban.at = "done"

\* the id of the request does not parse to a positive integer
InvalidId == NotPositive(parseInt(kanban.id))

\* the stage of the request is missing, not a string, or blank
InvalidStage == kanban.stage.k # "str" \/ Trim(kanban.stage.s) = <<>>

\* C25: the kanban controllers never call the service on an invalid request.
\* GET with an id that does not parse to a positive integer is answered 400
\* 'Invalid position ID format' and getPositionCandidates is not called; PUT
\* with an invalid id, or with a stage that is missing, not a string or blank,
\* is answered 400 and updateCandidateStage is not called; and a request is
\* answered exactly once: never twice, and once when its controller is done.
C25_NoServiceCallOnInvalidRequest ==
    /\ kanban.responses <= 1
    /\ kanban.serviceCalls <= 1
    /\ kanban.route # "" /\ (InvalidId \/ (kanban.route = "PUT" /\ InvalidStage))
          => kanban.serviceCalls = 0 /\ kanban.queries = <<>>
    /\ ControllerDone =>
          /\ kanban.responses = 1
          /\ kanban.route = "GET" /\ InvalidId
                => kanban.status = 400 /\ kanban.error = "Invalid position ID format"
          /\ kanban.route = "PUT" /\ InvalidId
                => kanban.status = 400 /\ kanban.error = "Invalid candidate ID format"
          /\ kanban.route = "PUT" /\ ~InvalidId /\ InvalidStage
                => /\ kanban.status = 400
                   /\ kanban.error \in {"Stage is required", "Stage must be a string",
                                        "Stage cannot be empty"}
          /\ kanban.serviceCalls = 0 => kanban.status = 400

\* GET /positions/a/candidates, an id that is no number, was answered 400
C25_Witness ==
    /\ ControllerDone
    /\ kanban.route = "GET"
    /\ kanban.id = <<"a">>
    /\ kanban.status = 400
    /\ kanban.serviceCalls = 0

\* a PUT with a number for a stage, and one with a valid stage, were answered
C25_WitnessStage ==
    /\ ControllerDone
    /\ kanban.route = "PUT"
    /\ kanban.id = <<"1">>
    /\ kanban.stage = Num
    /\ kanban.error = "Stage must be a string"

C25_WitnessUpdated ==
    /\ ControllerDone
    /\ kanban.route = "PUT"
    /\ kanban.id = <<"1", "a">>
    /\ kanban.status = 200
    /\ kanban.serviceCalls = 1
    /\ kanban.applications # kanban.before

\* the arrays and objects among the elements of an array or the values of an
\* object
Containers(v) == { i \in 1..Len(v.kids) : IsObjectLike(v.kids[i]) }

\* the levels of arrays and objects below the top of a value
RECURSIVE Height(_)
Height(v) ==
    IF ~IsObjectLike(v) \/ Containers(v) = {} THEN 0
    ELSE LET below == { Height(v.kids[i]) : i \in Containers(v) }
         IN  1 + CHOOSE h \in below : \A g \in below : g <= h

\* the reference depth of v at depth c: c for a scalar, and for an array or an
\* object the largest of c and the reference depths, at c + 1, of its arrays
\* and objects
RECURSIVE ReferenceDepth(_, _)
ReferenceDepth(v, c) ==
    IF ~IsObjectLike(v) THEN c
    ELSE LET depths == {c} \cup { ReferenceDepth(v.kids[i], c + 1) : i \in Containers(v) }
         IN  CHOOSE d \in depths : \A e \in depths : e <= d

RECURSIVE SumOver(_, _)
SumOver(f, S) ==
    IF S = {} THEN 0
    ELSE LET x == CHOOSE y \in S : TRUE
         IN  f[x] + SumOver(f, S \ {x})

\* the reference field count of v: 0 for a scalar, and for an array of length N
\* or an object of K keys, N or K and the reference field counts of its arrays
\* and objects
RECURSIVE ReferenceFieldCount(_)
ReferenceFieldCount(v) ==
    CASE v.k = "arr" ->
            Len(v.kids)
              + SumOver([i \in Containers(v) |-> ReferenceFieldCount(v.kids[i])], Containers(v))
      [] v.k = "obj" ->
            Len(v.keys) + v.pad
              + SumOver([i \in Containers(v) |-> ReferenceFieldCount(v.kids[i])], Containers(v))
      [] OTHER -> 0

Measured == scorer.at = "measured"

\* no array or object of the measured value lies deeper than 50
WithinBreaker == scorer.start + Height(scorer.value) <= 50

\* C26: on a tree of depth at most 50 calculateJsonComplexity equals the
\* reference measure.  Measuring such a tree from depth 0 measures each of its
\* subtrees v at its depth c, with c + Height(v) <= 50, and the equation is
\* stated for every such call: the depth is the reference depth, the field
\* count the reference field count; a scalar gives {depth: c, fieldCount: 0};
\* an empty array or object gives fieldCount 0, and one field of the array or
\* object it is wrapped in.
C26_EqualsReference ==
    Measured /\ WithinBreaker =>
        /\ scorer.result = Complexity(ReferenceDepth(scorer.value, scorer.start),
                                      ReferenceFieldCount(scorer.value))
        /\ ~IsObjectLike(scorer.value) => scorer.result = Complexity(scorer.start, 0)
        /\ scorer.value \in { EmptyObject, Arr(<<>>) } =>
              /\ scorer.result.fieldCount = 0
              /\ scorer.start < 50 =>
                    scorer.inArray.fieldCount = 1 /\ scorer.inObject.fieldCount = 1

\* a value of three levels was measured at depth 47: its deepest array lies at 50
C26_Witness ==
    /\ Measured
    /\ scorer.start = 47
    /\ Height(scorer.value) = 3
    /\ scorer.result.depth = 50
    /\ scorer.result.fieldCount = ReferenceFieldCount(scorer.value)
    /\ scorer.result.fieldCount > 4

\* a body was measured from depth 0, and a value whose arrays and objects
\* reach below depth 50, where the result is no longer the reference measure
C26_WitnessBody ==
    /\ Measured
    /\ scorer.start = 0
    /\ Height(scorer.value) = 3
    /\ scorer.result = Complexity(3, ReferenceFieldCount(scorer.value))

C26_WitnessBeyond ==
    /\ Measured
    /\ scorer.start = 49
    /\ Height(scorer.value) = 3
    /\ scorer.result.fieldCount < ReferenceFieldCount(scorer.value)
    /\ scorer.result.depth < ReferenceDepth(scorer.value, scorer.start)

\* the depths of the calls on the stack
StackDepths == { scorer.stack[i].depth : i \in 1..Len(scorer.stack) }

\* the value on the heap refers to itself, or is nested deeper than 50
Adversarial == scorer.heap \in { SelfReference, TwoCycle } \/ Len(scorer.heap) > 51

\* no call is entered past depth 51, a call at depth 51 does nothing but
\* return, and what it returns is {depth: 50, fieldCount: 0}
BreakerHolds ==
    /\ \A d \in StackDepths : d <= 51
    /\ \A i \in 1..Len(scorer.stack) : scorer.stack[i].depth = 51 => scorer.stack[i].i = 0
    /\ Len(scorer.stack) <= 52
    /\ scorer.last.depth = 51 => scorer.last.result = Complexity(50, 0)

\* C27: calculateJsonComplexity terminates on every input, values that refer
\* to themselves and values nested deeper than 50 levels included: every call
\* that is running returns, the recursion never goes past depth 51, and the
\* call at depth 51 is answered {depth: 50, fieldCount: 0}.
C27_Terminates ==
    /\ [](BreakerHolds)
    /\ (scorer.at = "running") ~> (scorer.at = "returned")

\* the call on an object that refers to itself has returned, after the
\* circuit breaker answered at depth 51
C27_Witness ==
    /\ scorer.at = "returned"
    /\ scorer.heap = SelfReference
    /\ scorer.last = [depth |-> 0, result |-> Complexity(50, 51)]

\* the recursion stands at depth 51 on a value of 52 levels
C27_WitnessDeep ==
    /\ scorer.at = "running"
    /\ scorer.heap = Chain(52)
    /\ Len(scorer.stack) = 52
    /\ scorer.stack[52].depth = 51

\* on a tree the call stack gives what the function gives in one evaluation
C27_WitnessTree ==
    /\ scorer.at = "returned"
    /\ scorer.heap = SmallTree
    /\ scorer.result =
          calculateJsonComplexity(
              Obj(<< <<"id">>, <<"data">>, <<"name">> >>,
                  << Num, Arr(<<>>), Obj(<< <<"id">>, <<"data">> >>, <<Num, Arr(<<>>)>>) >>), 0)
    /\ scorer.result = Complexity(2, 5)

\* C28: the depth reported by calculateJsonComplexity is bounded and monotone.
\* Entered at a depth c in 0..50 on any value it reports a depth d with
\* c <= d <= 50; the value wrapped in one more array or object, measured at the
\* same depth, is never reported less deep; and the result for a body, measured
\* from depth 0, never exceeds 50, however deep the body.
C28_DepthBoundedAndMonotone ==
    /\ Measured /\ scorer.start <= 50 =>
          /\ scorer.start <= scorer.result.depth
          /\ scorer.result.depth <= 50
          /\ scorer.result.depth <= scorer.inArray.depth
          /\ scorer.result.depth <= scorer.inObject.depth
          /\ scorer.inArray.depth <= 50
          /\ scorer.inObject.depth <= 50
    /\ scorer.at = "returned" => scorer.result.depth <= 50

\* an object holding an object was measured at depth 50, and wrapped once more
C28_Witness ==
    /\ Measured
    /\ scorer.start = 50
    /\ Height(scorer.value) >= 1
    /\ scorer.result.depth = 50
    /\ scorer.inObject.depth = 50

\* wrapping made the reported depth larger, and a body of 52 levels was
\* reported at 50
C28_WitnessDeeper ==
    /\ Measured
    /\ scorer.start = 0
    /\ IsObjectLike(scorer.value)
    /\ scorer.inArray.depth = scorer.result.depth + 1

C28_WitnessBody ==
    /\ scorer.at = "returned"
    /\ scorer.heap = Chain(52)
    /\ scorer.result.depth = 50

\* the request r as the stage at position i of profile p receives it
PresentedIn(p, i, r) ==
    LET sanitized == IF \E j \in 1..(i - 1) : p[j] = "xssProtection"
                     THEN xssSanitized(r) ELSE r
    IN  IF \E j \in 1..(i - 1) : p[j] = "redirectProtection"
        THEN [sanitized EXCEPT !.validateRedirect = TRUE]
        ELSE sanitized

\* the response of the stage at position i of profile p to request r, NoResp
\* when it calls next; over: the client of r is over its budget
AnswerIn(p, i, r, over) ==
    IF p[i] = "rateLimiter"
    THEN IF over
         THEN [status |-> 429, code |-> "RATE_LIMIT_EXCEEDED",
               error |-> "Too many requests from this IP, please try again later.",
               detail |-> NoDetail]
         ELSE NoResp
    ELSE StageResult(p[i], PresentedIn(p, i, r)).resp

\* what becomes of request r in profile p: answered by the first stage that
\* objects, or forwarded to the handler as the last stage left it
OutcomeIn(p, r, over) ==
    LET objecting == { i \in 1..Len(p) : AnswerIn(p, i, r, over) # NoResp }
    IN  IF objecting = {}
        THEN [forwarded |-> TRUE, resp |-> NoResp,
              body |-> PresentedIn(p, Len(p) + 1, r).body,
              query |-> PresentedIn(p, Len(p) + 1, r).query]
        ELSE [forwarded |-> FALSE, resp |-> AnswerIn(p, Earliest(objecting), r, over),
              body |-> Undef, query |-> Undef]

\* the stages of p are stages of q, in the same order
InSameOrder(p, q) ==
    LET PositionIn(name) == CHOOSE k \in 1..Len(q) : q[k] = name
    IN  /\ \A i \in 1..Len(p) : \E k \in 1..Len(q) : q[k] = p[i]
        /\ \A i, j \in 1..Len(p) : i < j => PositionIn(p[i]) < PositionIn(p[j])

\* the request that has ended, in the minimal and in the enhanced profile
InMinimal == OutcomeIn(applySecurity, orig, OverBudget)

InEnhanced == OutcomeIn(enhancedSecurity, orig, OverBudget)

\* the profile the request ran through did with it what OutcomeIn says
RanAsOutcome ==
    LET o == OutcomeIn(profile, orig, OverBudget)
    IN  /\ o.forwarded <=> handlerCalls = 1
        /\ o.forwarded => received = o.body /\ req.query = o.query
        /\ ~o.forwarded => resp = o.resp /\ handlerCalls = 0

\* C29: the enhanced profile refines the minimal one.  The stages of
\* applySecurity are stages of enhancedSecurity, in the same order; with the
\* same rate-limit state, a request that applySecurity rejects is rejected by
\* enhancedSecurity, and a request that enhancedSecurity forwards to the
\* handler is forwarded by applySecurity, with the same body and query.
C29_EnhancedRefinesMinimal ==
    /\ InSameOrder(applySecurity, enhancedSecurity)
    /\ Ended =>
         /\ RanAsOutcome
         /\ ~InMinimal.forwarded => ~InEnhanced.forwarded
         /\ InEnhanced.forwarded =>
              /\ InMinimal.forwarded
              /\ InMinimal.body = InEnhanced.body
              /\ InMinimal.query = InEnhanced.query

\* applySecurity has rejected a SQL-injection body, which enhancedSecurity
\* rejects as well
C29_Witness ==
    /\ Ended
    /\ profile = applySecurity
    /\ orig.body = SqlExampleBody
    /\ resp.code = "SUSPICIOUS_INPUT"
    /\ ~InEnhanced.forwarded

\* enhancedSecurity has forwarded a body that the XSS stage changed, and has
\* rejected, for its cookie, a request that applySecurity forwards
C29_WitnessForwarded ==
    /\ Ended
    /\ profile = enhancedSecurity
    /\ handlerCalls = 1
    /\ received # orig.body
    /\ InMinimal.forwarded
    /\ InMinimal.body = received

C29_WitnessStricter ==
    /\ Ended
    /\ profile = enhancedSecurity
    /\ resp.code = "MALICIOUS_COOKIE"
    /\ InMinimal.forwarded

\* the request in flight as any client could have sent it: its path, headers,
\* cookies, query and body, from a fixed address
Content == [orig EXCEPT !.ip = "203.0.113.7"]

\* a stage other than the rate limiter runs
StatelessStageRuns ==
    /\ Len(trace') = Len(trace) + 1
    /\ trace'[Len(trace')] # "rateLimiter"

\* C30: apart from the rate limiter, the pipeline carries no state between
\* requests.  What a stage other than the rate limiter does with a request, its
\* verdict and the body and query it leaves in the request, is a function of the
\* path, headers, cookies, query and body the request arrived with: it is the
\* same whatever the counters of the rate limiter, the clock, the client and the
\* requests that went before.
C30_StagesStateless ==
    [][ StatelessStageRuns =>
          LET i == Len(trace')
              answer == AnswerIn(profile, i, Content, FALSE)
          IN  /\ trace'[i] = profile[i]
              /\ answer # NoResp => resp' = answer /\ responses' = 1 /\ pc' = -1
              /\ answer = NoResp => resp' = NoResp /\ responses' = 0 /\ pc' = i + 1
              /\ req'.body = PresentedIn(profile, i + 1, Content).body
              /\ req'.query = PresentedIn(profile, i + 1, Content).query
              /\ hits' = hits /\ age' = age
      ]_vars

\* the second request of a client whose counter has moved was answered by the
\* SQL stage, and one was sanitized by the XSS stage
C30_Witness ==
    /\ Ended
    /\ nreq = 2
    /\ atArrival.hits[orig.ip] > 0
    /\ trace # <<>>
    /\ trace[Len(trace)] = "sqlInjectionProtection"
    /\ resp.code = "SUSPICIOUS_INPUT"

C30_WitnessSanitized ==
    /\ XssJustRan
    /\ nreq = 2
    /\ atArrival.hits[orig.ip] = RateMax(NODE_ENV) - 1
    /\ req.body # orig.body

=============================================================================
